---- MODULE Spec2Model ----
(***************************************************************************)
(* Cohort rule-evaluation engine (src/src/cohort_builder.py, utils.py).    *)
(*                                                                         *)
(* Representation                                                          *)
(*   - a DataFrame / query result is a sequence of rows (records), so that *)
(*     duplicate rows and row order are visible;                           *)
(*   - a date is a whole day number (date_of_service carries no time of    *)
(*     day), so (a - b).days is integer subtraction;                       *)
(*   - a code, a code pattern or a drug name is a sequence of one-letter   *)
(*     strings, so that SQL LIKE can be evaluated letter by letter;        *)
(*   - the SQL text returned by a filter builder is the sequence of its    *)
(*     OR-ed conditions; the empty sequence is the empty string "".        *)
(***************************************************************************)
EXTENDS Integers, Sequences, FiniteSets, TLC

VARIABLES
    pc,           \* the operation that has acted last ("init" before any)
    store,        \* the claims store: [dx, px, rx, members], each a table
    cfg,          \* the arguments / criteria specification of the call
    inc_claims,   \* the inclusion-claims DataFrame handed to the resolver
    index_dates,  \* the index-date DataFrame (resolver output, exclusion input)
    result        \* what the operation returned: [status, rows, map]

vars == <<pc, store, cfg, inc_claims, index_dates, result>>

----------------------------------------------------------------------------
(* Bounds of the model                                                     *)

MaxDay == 2          \* dates of service: day numbers 0..MaxDay and one far day
MaxGap == 2          \* min_days_between / window days range over 0..MaxGap
MaxClaims == 3       \* rows of the DataFrame handed to the resolver
MaxStored == 2       \* rows of a store table
MaxCodes == 2        \* entries of a code list in the criteria specification
MaxIncl == 4         \* diagnosis rows in the store of the assembler specification

MemberOrder == <<"M1", "M2">>     \* member identifiers in collation order
Members == {MemberOrder[i] : i \in 1..Len(MemberOrder)}
DaysPerMonth == 30                 \* `months * 30`
FarDay == DaysPerMonth + 1         \* a date more than a month after day 0
Dates == (0..MaxDay) \cup {FarDay}

----------------------------------------------------------------------------
(* Generic helpers                                                         *)

Range(s) == {s[i] : i \in 1..Len(s)}

SeqsUpTo(S, n) == UNION {[1..k -> S] : k \in 0..n}

MemberRank(m) == CHOOSE i \in 1..Len(MemberOrder) : MemberOrder[i] = m

SetMin(S) == CHOOSE x \in S : \A y \in S : x <= y

Abs(x) == IF x < 0 THEN -x ELSE x

\* dict.get(key, default)
Get(d, key, default) == IF key \in DOMAIN d THEN d[key] ELSE default

\* `col in df.columns` (the columns of a frame are the fields of its rows; a
\* frame without rows shows no column, and no caller reads one then)
\* A dict without keys
NoKeys == <<>>

\* The columns of an index-date frame
IndexColumns == {"member_id_hash", "index_date"}

\* What a call hands back: the frame it returns (rows and columns), or the
\* exception it raises; `steps` lists the pipeline steps build_cohort ran
ReturnedFrame(rows, columns) ==
    [status |-> "returned", rows |-> rows, error |-> "", steps |-> <<>>,
     columns |-> columns]
ReturnedOutcome(rows) == ReturnedFrame(rows, IndexColumns)
RaisedOutcome(error) ==
    [status |-> "raised", rows |-> <<>>, error |-> error, steps |-> <<>>,
     columns |-> {}]
WithSteps(outcome, steps) == [outcome EXCEPT !.steps = steps]

HasColumn(df, col) == df # <<>> /\ col \in DOMAIN df[1]

----------------------------------------------------------------------------
(* 4.1 Code-filter predicate builder                                       *)

\* str.replace(old, new) on a letter sequence
Replace(code, old, new) ==
    [i \in 1..Len(code) |-> IF code[i] = old THEN new ELSE code[i]]

\* SQL (DuckDB) `s LIKE p`: % is any run of letters, _ any one letter,
\* every other letter (the dot included) stands for itself; case-sensitive
RECURSIVE Like(_, _)
Like(s, p) ==
    IF p = <<>> THEN s = <<>>
    ELSE IF Head(p) = "%"
         THEN Like(s, Tail(p)) \/ (s # <<>> /\ Like(Tail(s), p))
         ELSE /\ s # <<>>
              /\ (Head(p) = "_" \/ Head(p) = Head(s))
              /\ Like(Tail(s), Tail(p))

\* One condition of the predicate text: `col LIKE 'val'` or `col = 'val'`
IcdCondition(code) ==
    IF "*" \in Range(code) \/ "." \in Range(code)
    THEN [op |-> "LIKE", val |-> Replace(code, "*", "%")]
    ELSE [op |-> "=", val |-> code]

\* _icd_code_sql_filter: the conditions joined by " OR " (<<>> is the text "")
IcdCodeSqlFilter(codes) == [i \in 1..Len(codes) |-> IcdCondition(codes[i])]

\* A stored NULL (a one-element sequence holding the marker, not a letter)
Null == <<"NULL">>

\* The database evaluating one condition on a stored column value: a
\* comparison with NULL is not true
EvalCondition(cond, value) ==
    /\ value # Null
    /\ IF cond.op = "LIKE" THEN Like(value, cond.val) ELSE value = cond.val

\* The database evaluating `c1 OR c2 OR ...` on a stored column value
EvalFilter(conds, value) ==
    \E i \in 1..Len(conds) : EvalCondition(conds[i], value)

\* `WHERE ` followed by an empty predicate text is not SQL: the query raises
FilterMalformed(conds) == conds = <<>>

\* SELECT ... FROM claims_entries ce INNER JOIN claims_diagnoses cd ...
\* WHERE {_icd_code_sql_filter(codes)}: the joined rows the predicate selects
\* (the caller checks FilterMalformed first: the database raises on it)
DiagnosisQuery(dx, codes) ==
    SelectSeq(dx, LAMBDA row : EvalFilter(IcdCodeSqlFilter(codes), row.icd_code))

----------------------------------------------------------------------------
(* 4.3 Support evaluator                                                   *)

\* _procedure_code_sql_filter: as _icd_code_sql_filter, on proc_code
ProcedureCodeSqlFilter(codes) == [i \in 1..Len(codes) |-> IcdCondition(codes[i])]

\* _drug_name_sql_filter: LIKE when the name holds * or %, and the name is
\* passed to LIKE as written (a * is not turned into %)
DrugCondition(drug_name) ==
    IF "*" \in Range(drug_name) \/ "%" \in Range(drug_name)
    THEN [op |-> "LIKE", val |-> drug_name]
    ELSE [op |-> "=", val |-> drug_name]

DrugNameSqlFilter(drug_names) ==
    [i \in 1..Len(drug_names) |-> DrugCondition(drug_names[i])]

SentinelProcCode == <<"0", "0", "0", "0", "0", "0", "0">>
EmptyName == <<>>

\* WHERE ... AND ({proc_filter}) AND cp.proc_code != '0000000'
ProcedureRowMatches(row, procedure_codes) ==
    /\ EvalFilter(ProcedureCodeSqlFilter(procedure_codes), row.proc_code)
    /\ row.proc_code # Null
    /\ row.proc_code # SentinelProcCode

\* WHERE ... AND ce.claim_type = 'pharma' AND ({drug_filter})
\*   AND cd.product_service_name IS NOT NULL AND cd.product_service_name != ''
DrugRowMatches(row, drug_names) ==
    /\ row.claim_type = "pharma"
    /\ EvalFilter(DrugNameSqlFilter(drug_names), row.product_service_name)
    /\ row.product_service_name # Null
    /\ row.product_service_name # EmptyName

\* The single-member check without `AND cp.proc_code != '0000000'`
GetProcedureSupportWithSentinel(px, member_id_hash, procedure_codes) ==
    IF procedure_codes = <<>> THEN FALSE
    ELSE \E k \in 1..Len(px) :
            /\ px[k].member_id_hash = member_id_hash
            /\ EvalFilter(ProcedureCodeSqlFilter(procedure_codes), px[k].proc_code)

\* get_procedure_support (window_days is accepted and never read)
GetProcedureSupport(px, member_id_hash, procedure_codes) ==
    IF procedure_codes = <<>> THEN FALSE
    ELSE \E k \in 1..Len(px) :
            /\ px[k].member_id_hash = member_id_hash
            /\ ProcedureRowMatches(px[k], procedure_codes)

\* get_drug_support (window_days is accepted and never read)
GetDrugSupport(rx, member_id_hash, drug_names) ==
    IF drug_names = <<>> THEN FALSE
    ELSE \E k \in 1..Len(rx) :
            /\ rx[k].member_id_hash = member_id_hash
            /\ DrugRowMatches(rx[k], drug_names)

\* The final dict comprehension of the batch variants: {mid: mid in found}
SupportDictFoundOnly(member_ids, found) ==
    [mid \in Range(member_ids) \cap found |-> TRUE]

SupportDict(member_ids, found) ==
    [mid \in Range(member_ids) |-> mid \in found]

\* batch_get_procedure_support: a dict member -> bool
BatchGetProcedureSupport(px, member_ids, procedure_codes) ==
    IF procedure_codes = <<>> \/ member_ids = <<>>
    THEN [mid \in Range(member_ids) |-> FALSE]
    ELSE LET members_with_procedures ==
                 {px[k].member_id_hash : k \in
                     {j \in 1..Len(px) :
                         /\ px[j].member_id_hash \in Range(member_ids)
                         /\ ProcedureRowMatches(px[j], procedure_codes)}}
         IN  SupportDict(member_ids, members_with_procedures)

\* batch_get_drug_support: a dict member -> bool
BatchGetDrugSupport(rx, member_ids, drug_names) ==
    IF drug_names = <<>> \/ member_ids = <<>>
    THEN [mid \in Range(member_ids) |-> FALSE]
    ELSE LET members_with_drugs ==
                 {rx[k].member_id_hash : k \in
                     {j \in 1..Len(rx) :
                         /\ rx[j].member_id_hash \in Range(member_ids)
                         /\ DrugRowMatches(rx[j], drug_names)}}
         IN  SupportDict(member_ids, members_with_drugs)

----------------------------------------------------------------------------
(* 4.2 Window-based index-date resolver (utils.find_valid_claims_window)   *)

\* Order of df.sort_values([member_col, date_col])
RowLeq(a, b) ==
    \/ MemberRank(a.member_id_hash) < MemberRank(b.member_id_hash)
    \/ /\ a.member_id_hash = b.member_id_hash
       /\ a.date_of_service <= b.date_of_service

RECURSIVE InsertRow(_, _)
InsertRow(row, sorted) ==
    IF sorted = <<>> THEN <<row>>
    ELSE IF RowLeq(row, Head(sorted)) THEN <<row>> \o sorted
    ELSE <<Head(sorted)>> \o InsertRow(row, Tail(sorted))

\* claims_df.sort_values([member_col, date_col]).reset_index(drop=True)
RECURSIVE SortValues(_)
SortValues(df) ==
    IF df = <<>> THEN <<>> ELSE InsertRow(Head(df), SortValues(Tail(df)))

\* groupby(member_col)[date_col].shift(-1) is not NaT at row i: the next row
\* of the sorted frame exists and belongs to the same member
NextDateNotNaUngrouped(sorted, i) == i < Len(sorted)

NextDateNotNa(sorted, i) ==
    /\ i < Len(sorted)
    /\ sorted[i + 1].member_id_hash = sorted[i].member_id_hash

\* days_to_next = (next_date - date).dt.days
DaysToNext(sorted, i) ==
    sorted[i + 1].date_of_service - sorted[i].date_of_service

\* The rows kept in valid_pairs (positions in the sorted frame)
ValidPairs(sorted, min_days_between) ==
    {i \in 1..Len(sorted) :
        NextDateNotNa(sorted, i) /\ DaysToNext(sorted, i) >= min_days_between}

\* The group keys of a frame, in the sorted order groupby emits them
GroupKeys(keys) == SelectSeq(MemberOrder, LAMBDA m : m \in keys)

\* The resolver without the sort_values([member_col, date_col]) step
FindValidClaimsWindowUnsorted(claims_df, min_days_between, min_claims) ==
    LET valid_pairs == ValidPairs(claims_df, min_days_between)
        keys == GroupKeys({claims_df[i].member_id_hash : i \in valid_pairs})
        GroupMin(m) == SetMin({claims_df[i].date_of_service :
                                  i \in {j \in valid_pairs :
                                             claims_df[j].member_id_hash = m}})
    IN  [k \in 1..Len(keys) |->
            [member_id_hash |-> keys[k], index_date |-> GroupMin(keys[k])]]

\* find_valid_claims_window: min_claims is accepted and never read
FindValidClaimsWindow(claims_df, min_days_between, min_claims) ==
    LET sorted == SortValues(claims_df)
        valid_pairs == ValidPairs(sorted, min_days_between)
        keys == GroupKeys({sorted[i].member_id_hash : i \in valid_pairs})
        \* valid_pairs.groupby(member_col)[date_col].min()
        GroupMin(m) == SetMin({sorted[i].date_of_service :
                                  i \in {j \in valid_pairs :
                                             sorted[j].member_id_hash = m}})
    IN  [k \in 1..Len(keys) |->
            [member_id_hash |-> keys[k], index_date |-> GroupMin(keys[k])]]

----------------------------------------------------------------------------
(* Cohort assembler: inclusion query and index-date resolution             *)

DaysPerYear == 365

\* _claim_type_sql_filter: ce.claim_type IN ('t1', 't2', ...)
ClaimTypeMatches(row, claim_types) ==
    \E i \in 1..Len(claim_types) : row.claim_type = claim_types[i]

\* The WHERE clause of the inclusion query
InclusionRowMatches(row, inclusion_cfg, today) ==
    /\ EvalFilter(IcdCodeSqlFilter(inclusion_cfg.icd_codes), row.icd_code)
    /\ "claim_types" \in DOMAIN inclusion_cfg
          => ClaimTypeMatches(row, inclusion_cfg.claim_types)
    /\ "date_range_years" \in DOMAIN inclusion_cfg
          => row.date_of_service
                >= today - inclusion_cfg.date_range_years * DaysPerYear

\* The inclusion query raises: `WHERE ()`, or `WHERE` + nothing in the
\* symptom query
InclusionQueryRaises(inclusion_cfg) ==
    \/ FilterMalformed(IcdCodeSqlFilter(inclusion_cfg.icd_codes))
    \/ /\ "symptom_codes" \in DOMAIN inclusion_cfg
       /\ "symptom_window_days" \in DOMAIN inclusion_cfg
       /\ FilterMalformed(IcdCodeSqlFilter(inclusion_cfg.symptom_codes))

\* One more column on a row
WithColumn(row, col, value) == (col :> value) @@ row

\* get_inclusion_claims_advanced (when the queries do not raise)
GetInclusionClaimsAdvanced(st, inclusion_cfg) ==
    LET claims == SortValues(SelectSeq(st.dx,
                     LAMBDA row : InclusionRowMatches(row, inclusion_cfg, st.today)))
        member_ids == GroupKeys({claims[k].member_id_hash : k \in 1..Len(claims)})
        HasSymptom(row) ==
            \E k \in 1..Len(st.dx) :
                /\ EvalFilter(IcdCodeSqlFilter(inclusion_cfg.symptom_codes),
                              st.dx[k].icd_code)
                /\ st.dx[k].member_id_hash = row.member_id_hash
                /\ Abs(st.dx[k].date_of_service - row.date_of_service)
                      <= inclusion_cfg.symptom_window_days
        c1 == IF /\ "symptom_codes" \in DOMAIN inclusion_cfg
                 /\ "symptom_window_days" \in DOMAIN inclusion_cfg
              THEN [k \in 1..Len(claims) |->
                      WithColumn(claims[k], "has_symptom_code", HasSymptom(claims[k]))]
              ELSE claims
        c2 == IF /\ Get(inclusion_cfg, "allow_procedure", FALSE)
                 /\ "procedure_codes" \in DOMAIN inclusion_cfg
              THEN LET procedure_support ==
                           BatchGetProcedureSupport(st.px, member_ids,
                                                    inclusion_cfg.procedure_codes)
                   IN  [k \in 1..Len(c1) |->
                          WithColumn(c1[k], "has_procedure_support",
                                     procedure_support[c1[k].member_id_hash])]
              ELSE c1
        c3 == IF /\ Get(inclusion_cfg, "allow_medication", FALSE)
                 /\ "medication_codes" \in DOMAIN inclusion_cfg
              THEN LET drug_support ==
                           BatchGetDrugSupport(st.rx, member_ids,
                                               inclusion_cfg.medication_codes)
                   IN  [k \in 1..Len(c2) |->
                          WithColumn(c2[k], "has_drug_support",
                                     drug_support[c2[k].member_id_hash])]
              ELSE c2
    IN  c3

\* index_dates[index_dates['member_id_hash'].isin(members)]
IsIn(df, members) == SelectSeq(df, LAMBDA r : r.member_id_hash \in members)

\* The loop body without `if len(member_claims) < min_claims: continue`
WithinMonthsKeepsAnyCount(claims, member, min_claims, months) ==
    LET member_claims ==
            SelectSeq(SortValues(claims), LAMBDA r : r.member_id_hash = member)
    IN  member_claims[Len(member_claims)].date_of_service
            - member_claims[1].date_of_service <= months * DaysPerMonth

\* The within_months loop body: does the member stay in `filtered`
WithinMonthsKeeps(claims, member, min_claims, months) ==
    LET member_claims ==
            SelectSeq(SortValues(claims), LAMBDA r : r.member_id_hash = member)
    IN  /\ Len(member_claims) >= min_claims
        /\ member_claims[Len(member_claims)].date_of_service
              - member_claims[1].date_of_service <= months * DaysPerMonth

\* The OR branch of the medication block when procedure support is active too
CombineOrIntersect(procedure_supported_set, drug_supported_set) ==
    procedure_supported_set \cap drug_supported_set

CombineOrExclusive(procedure_supported_set, drug_supported_set) ==
    (procedure_supported_set \ drug_supported_set)
        \cup (drug_supported_set \ procedure_supported_set)

CombineOr(procedure_supported_set, drug_supported_set) ==
    procedure_supported_set \cup drug_supported_set

\* The default of require_both_procedure_and_medication
RequireBothDefaultFalse(inclusion_cfg) ==
    Get(inclusion_cfg, "require_both_procedure_and_medication", FALSE)

RequireBoth(inclusion_cfg) ==
    Get(inclusion_cfg, "require_both_procedure_and_medication", TRUE)

\* find_index_dates_window, up to the support blocks: the resolver's records
\* that pass the optional within_months test
WindowQualified(claims, inclusion_cfg) ==
    LET min_days == Get(inclusion_cfg, "min_days_between_claims", 0)
        min_claims == inclusion_cfg.min_claims
        w0 == FindValidClaimsWindow(claims, min_days, min_claims)
    IN  IF "within_months" \in DOMAIN inclusion_cfg
        THEN SelectSeq(w0, LAMBDA r :
                 WithinMonthsKeeps(claims, r.member_id_hash, min_claims,
                                   inclusion_cfg.within_months))
        ELSE w0

\* find_index_dates_window
FindIndexDatesWindow(st, claims, inclusion_cfg) ==
    LET w1 == WindowQualified(claims, inclusion_cfg)
        has_procedure_support == HasColumn(claims, "has_procedure_support")
        procedure_codes == Get(inclusion_cfg, "procedure_codes", <<>>)
        has_drug_support == HasColumn(claims, "has_drug_support")
        medication_codes == Get(inclusion_cfg, "medication_codes", <<>>)
        require_both == RequireBoth(inclusion_cfg)
        procedure_block == has_procedure_support /\ procedure_codes # <<>> /\ w1 # <<>>
        procedure_supported ==
            {w1[k].member_id_hash : k \in
                {j \in 1..Len(w1) :
                    GetProcedureSupport(st.px, w1[j].member_id_hash, procedure_codes)}}
        w2 == IF procedure_block /\ require_both
              THEN IsIn(w1, procedure_supported)
              ELSE w1
        drug_block == has_drug_support /\ medication_codes # <<>> /\ w2 # <<>>
        drug_supported ==
            {w2[k].member_id_hash : k \in
                {j \in 1..Len(w2) :
                    GetDrugSupport(st.rx, w2[j].member_id_hash, medication_codes)}}
        w3 == IF ~drug_block THEN w2
              ELSE IF require_both THEN IsIn(w2, drug_supported)
              ELSE IF has_procedure_support /\ procedure_codes # <<>>
                   THEN IsIn(w2, CombineOr(procedure_supported, drug_supported))
                   ELSE IsIn(w2, drug_supported)
    IN  w3

----------------------------------------------------------------------------
(* 4.4 Exclusion cascade                                                   *)

\* A window that looks only forward from the index date
HasClaimAfterOnly(dx, row, codes, window) ==
    \E k \in 1..Len(dx) :
        /\ EvalFilter(IcdCodeSqlFilter(codes), dx[k].icd_code)
        /\ dx[k].member_id_hash = row.member_id_hash
        /\ dx[k].date_of_service - row.index_date >= 0
        /\ dx[k].date_of_service - row.index_date <= window

\* has_subtype / has_organic: a claim of the same member with a listed code
\* whose date is within `window` days of the record's index date
HasClaimWithin(dx, row, codes, window) ==
    \E k \in 1..Len(dx) :
        /\ EvalFilter(IcdCodeSqlFilter(codes), dx[k].icd_code)
        /\ dx[k].member_id_hash = row.member_id_hash
        /\ Abs(dx[k].date_of_service - row.index_date) <= window

\* has_diabetes: a listed claim of the member on or before the index date
HasClaimOnOrBefore(dx, row, codes) ==
    \E k \in 1..Len(dx) :
        /\ EvalFilter(IcdCodeSqlFilter(codes), dx[k].icd_code)
        /\ dx[k].member_id_hash = row.member_id_hash
        /\ dx[k].date_of_service <= row.index_date

\* has_gdm, has_code, has_htn, has_ckd, has_pre_dm, has_o9981: a listed
\* claim of the member at any time
HasClaimAnyTime(dx, row, codes) ==
    \E k \in 1..Len(dx) :
        /\ EvalFilter(IcdCodeSqlFilter(codes), dx[k].icd_code)
        /\ dx[k].member_id_hash = row.member_id_hash

\* Does one exclusion rule remove the record
RuleExcludes(dx, row, rule) ==
    IF rule.kind = "within" THEN HasClaimWithin(dx, row, rule.codes, rule.window)
    ELSE IF rule.kind = "on_or_before" THEN HasClaimOnOrBefore(dx, row, rule.codes)
    ELSE HasClaimAnyTime(dx, row, rule.codes)

\* A step that re-dates an excluded record instead of dropping it
KeepNotExcludedRedated(dx, df, rule) ==
    [k \in 1..Len(df) |->
        IF RuleExcludes(dx, df[k], rule)
        THEN [df[k] EXCEPT !.index_date = @ + 1]
        ELSE df[k]]

\* index_dates[~index_dates.apply(has_x, axis=1)]
KeepNotExcluded(dx, df, rule) ==
    SelectSeq(df, LAMBDA row : ~RuleExcludes(dx, row, rule))

\* One rule applied to what the previous rules left.  The query runs first
\* and raises on an empty code list.  On a frame without rows,
\* DataFrame.apply(axis=1) does not call has_x on any row and the type of
\* what it hands to `~` depends on the pandas build: the step either leaves
\* the empty frame or raises TypeError.
RuleOutcomes(dx, outcome, rule) ==
    IF outcome.status = "raised" THEN {outcome}
    ELSE IF FilterMalformed(IcdCodeSqlFilter(rule.codes))
         THEN {RaisedOutcome("DatabaseError")}
    ELSE IF outcome.rows = <<>>
         THEN {ReturnedOutcome(<<>>), RaisedOutcome("TypeError")}
    ELSE {ReturnedOutcome(KeepNotExcluded(dx, outcome.rows, rule))}

\* The rules in order, each on every outcome of the ones before
RECURSIVE CascadeOutcomes(_, _, _)
CascadeOutcomes(dx, outcomes, rules) ==
    IF rules = <<>> THEN outcomes
    ELSE CascadeOutcomes(dx,
             UNION {RuleOutcomes(dx, o, Head(rules)) : o \in outcomes},
             Tail(rules))

\* The rule an exclusion key stands for, when its condition holds
RuleIf(cond, rule) == IF cond THEN <<rule>> ELSE <<>>

WithinRule(codes, window) == [kind |-> "within", codes |-> codes, window |-> window]
OnOrBeforeRule(codes) == [kind |-> "on_or_before", codes |-> codes, window |-> 0]
AnyTimeRule(codes) == [kind |-> "any_time", codes |-> codes, window |-> 0]

\* The two `if` blocks testing the code-list key alone, the window read
\* with a default of 0 days
AdvancedRulesByCodeKey(exclusion_cfg) ==
    RuleIf("subtypes" \in DOMAIN exclusion_cfg,
           WithinRule(Get(exclusion_cfg, "subtypes", <<>>),
                      Get(exclusion_cfg, "subtype_window_days", 0)))
    \o
    RuleIf("organic_gi" \in DOMAIN exclusion_cfg,
           WithinRule(Get(exclusion_cfg, "organic_gi", <<>>),
                      Get(exclusion_cfg, "organic_gi_window_days", 0)))

\* apply_exclusions_advanced: the rules its two `if` blocks apply
AdvancedRules(exclusion_cfg) ==
    RuleIf("subtypes" \in DOMAIN exclusion_cfg
               /\ "subtype_window_days" \in DOMAIN exclusion_cfg,
           WithinRule(Get(exclusion_cfg, "subtypes", <<>>),
                      Get(exclusion_cfg, "subtype_window_days", 0)))
    \o
    RuleIf("organic_gi" \in DOMAIN exclusion_cfg
               /\ "organic_gi_window_days" \in DOMAIN exclusion_cfg,
           WithinRule(Get(exclusion_cfg, "organic_gi", <<>>),
                      Get(exclusion_cfg, "organic_gi_window_days", 0)))

\* apply_exclusions_advanced: what the call can return or raise
ApplyExclusionsAdvanced(st, df, exclusion_cfg) ==
    CascadeOutcomes(st.dx, {ReturnedOutcome(df)},
                    AdvancedRules(exclusion_cfg))

\* apply_diabetes_exclusions: the rules its `if` blocks apply, in order
DiabetesRules(cohort_name, exclusion_cfg) ==
    LET Key(k) == k \in DOMAIN exclusion_cfg
        Codes(k) == Get(exclusion_cfg, k, <<>>)
    IN  RuleIf(cohort_name = "PreDiabetes" /\ Key("diabetes_codes"),
               OnOrBeforeRule(Codes("diabetes_codes")))
        \o RuleIf(Key("gdm_codes"), AnyTimeRule(Codes("gdm_codes")))
        \o RuleIf(cohort_name \in {"Diabetes_NoComp", "Diabetes_HTN"}
                      /\ Key("esrd_codes"),
                  AnyTimeRule(Codes("esrd_codes")))
        \o RuleIf(cohort_name \in {"Diabetes_NoComp", "Diabetes_HTN"}
                      /\ Key("ckd5_codes"),
                  AnyTimeRule(Codes("ckd5_codes")))
        \o RuleIf(cohort_name = "Diabetes_NoComp" /\ Key("htn_codes"),
                  AnyTimeRule(Codes("htn_codes")))
        \o RuleIf(cohort_name = "Diabetes_Kidney" /\ Key("ckd_stages_1_4"),
                  AnyTimeRule(Codes("ckd_stages_1_4")))
        \o RuleIf(cohort_name = "GDM" /\ Key("pre_existing_diabetes"),
                  AnyTimeRule(Codes("pre_existing_diabetes")))
        \o RuleIf(cohort_name = "GDM" /\ Key("o9981_code"),
                  AnyTimeRule(Codes("o9981_code")))

\* apply_diabetes_exclusions: what the call can return or raise
ApplyDiabetesExclusions(st, cohort_name, df, exclusion_cfg) ==
    CascadeOutcomes(st.dx, {ReturnedOutcome(df)},
                    DiabetesRules(cohort_name, exclusion_cfg))

----------------------------------------------------------------------------
(* build_cohort and the member-info join                                   *)

\* The demographics of a candidate without a members row
NaN == "NaN"

\* The columns of the members table
MembersColumns == {"member_id_hash", "gender"}

\* pd.merge(index_dates, members, on='member_id_hash', how='left'): one
\* output row per members row with the key, in members order, and one row
\* with empty demographics when there is none
RECURSIVE MergeLeft(_, _)
MergeLeft(df, members) ==
    IF df = <<>> THEN <<>>
    ELSE LET left == Head(df)
             matches == SelectSeq(members,
                            LAMBDA r : r.member_id_hash = left.member_id_hash)
             joined == IF matches = <<>>
                       THEN <<WithColumn(left, "gender", NaN)>>
                       ELSE [k \in 1..Len(matches) |->
                               WithColumn(left, "gender", matches[k].gender)]
         IN  joined \o MergeLeft(Tail(df), members)

\* COHORT_OUTPUT_SCHEMA.validate: both required columns are there
CohortOutputSchemaValid(df) ==
    \A k \in 1..Len(df) : {"member_id_hash", "index_date"} \subseteq DOMAIN df[k]

\* add_member_info: an empty frame for no candidates, else the validated
\* left join
AddMemberInfo(st, df) ==
    IF df = <<>> THEN ReturnedFrame(<<>>, {})
    ELSE LET merged == MergeLeft(df, st.members)
         IN  IF CohortOutputSchemaValid(merged)
             THEN ReturnedFrame(merged, IndexColumns \cup MembersColumns)
             ELSE RaisedOutcome("SchemaErrors")

\* result['cohort'] = cohort_name
WithCohort(df, cohort_name) ==
    [k \in 1..Len(df) |-> WithColumn(df[k], "cohort", cohort_name)]

\* build_cohort, its last two steps on what the exclusions left: the
\* member-info join and the cohort column.  `steps` are the steps run so far.
FinishBuild(st, outcome, cohort_name, steps) ==
    IF outcome.status = "raised" THEN WithSteps(outcome, steps)
    ELSE IF AddMemberInfo(st, outcome.rows).status = "raised"
         THEN WithSteps(AddMemberInfo(st, outcome.rows),
                        Append(steps, "add_member_info"))
         ELSE WithSteps(
                  ReturnedFrame(
                      WithCohort(AddMemberInfo(st, outcome.rows).rows, cohort_name),
                      AddMemberInfo(st, outcome.rows).columns \cup {"cohort"}),
                  Append(steps, "add_member_info"))

\* build_cohort: `if exclusion:` runs the exclusions for a non-empty section
ExclusionStep(st, candidates, exclusion) ==
    IF DOMAIN exclusion # {}
    THEN ApplyExclusionsAdvanced(st, candidates, exclusion)
    ELSE {ReturnedOutcome(candidates)}

\* build_cohort: the inclusion claims and the index dates resolved from them
InclusionStep(st, inclusion) ==
    FindIndexDatesWindow(st, GetInclusionClaimsAdvanced(st, inclusion), inclusion)

\* The steps of the generic pipeline up to the exclusions
StepsToExclusion(exclusion) ==
    <<"get_inclusion_claims_advanced", "find_index_dates_window">>
        \o (IF DOMAIN exclusion # {} THEN <<"apply_exclusions_advanced">> ELSE <<>>)

\* build_cohort below the registry test: the generic pipeline
GenericPipeline(st, config, cohort_name) ==
    IF cohort_name \notin DOMAIN config
    THEN {RaisedOutcome("KeyError")}
    ELSE IF "inclusion" \notin DOMAIN config[cohort_name]
    THEN {RaisedOutcome("KeyError")}
    ELSE IF InclusionQueryRaises(config[cohort_name].inclusion)
    THEN {WithSteps(RaisedOutcome("DatabaseError"),
                    <<"get_inclusion_claims_advanced">>)}
    ELSE {FinishBuild(st, o, cohort_name,
                      StepsToExclusion(Get(config[cohort_name], "exclusion", NoKeys))) :
            o \in ExclusionStep(st,
                      InclusionStep(st, config[cohort_name].inclusion),
                      Get(config[cohort_name], "exclusion", NoKeys))}

\* The registry as the module creates it
COHORT_LOGIC_REGISTRY == NoKeys

\* A registration that keeps the function a name already has
CohortLogicKeepFirst(registry, name, fn) == registry @@ (name :> fn)

\* cohort_logic(name)(fn): COHORT_LOGIC_REGISTRY[name] = fn
CohortLogic(registry, name, fn) == (name :> fn) @@ registry

\* A build_cohort that hands back an empty table when a step raises
BuildCohortSwallowing(st, config, registry, cohort_name) ==
    {IF o.status = "raised" THEN WithSteps(ReturnedFrame(<<>>, {}), o.steps) ELSE o :
        o \in IF cohort_name \in DOMAIN registry
              THEN {registry[cohort_name]}
              ELSE GenericPipeline(st, config, cohort_name)}

\* build_cohort: a registered function answers for its name (`registry`
\* maps a name to what its function hands back), the generic pipeline for
\* every other; an exception is logged and raised again
BuildCohort(st, config, registry, cohort_name) ==
    IF cohort_name \in DOMAIN registry
    THEN {registry[cohort_name]}
    ELSE GenericPipeline(st, config, cohort_name)

----------------------------------------------------------------------------
(* State: shared shapes                                                    *)

EmptyStore ==
    [dx |-> <<>>, px |-> <<>>, rx |-> <<>>, members |-> <<>>, today |-> 0]
NoResult == [status |-> "none", rows |-> <<>>, map |-> <<>>, error |-> ""]
Returned(rows) == [status |-> "returned", rows |-> rows, map |-> <<>>, error |-> ""]
RaisedWith(error) ==
    [status |-> "raised", rows |-> <<>>, map |-> <<>>, error |-> error]
\* The database rejecting a statement
Raised == RaisedWith("DatabaseError")

ClaimRow(m, d) == [member_id_hash |-> m, date_of_service |-> d]
ClaimRows == {ClaimRow(m, d) : m \in Members, d \in Dates}
MinClaimsChoices == {1, 2, 3}

----------------------------------------------------------------------------
(* Specification of the resolver on its own: every claims frame of up to   *)
(* MaxClaims rows in every row order, every min_days_between, min_claims   *)

InitWindow ==
    /\ pc = "init"
    /\ store = EmptyStore
    /\ cfg \in [min_days_between : 0..MaxGap, min_claims : MinClaimsChoices]
    /\ inc_claims \in SeqsUpTo(ClaimRows, MaxClaims)
    /\ index_dates = <<>>
    /\ result = NoResult

CallFindValidClaimsWindow ==
    /\ pc = "init"
    /\ pc' = "find_valid_claims_window"
    /\ index_dates' = FindValidClaimsWindow(inc_claims, cfg.min_days_between,
                                            cfg.min_claims)
    /\ result' = Returned(index_dates')
    /\ UNCHANGED <<store, cfg, inc_claims>>

NextWindow == CallFindValidClaimsWindow

SpecWindow == InitWindow /\ [][NextWindow]_vars

----------------------------------------------------------------------------
(* Claims about the resolver (checked under SpecWindow)                    *)

\* The dates of member m's claims in chronological order
ChronDates(df, m) ==
    LET mine == SelectSeq(SortValues(df), LAMBDA r : r.member_id_hash = m)
    IN  [i \in 1..Len(mine) |-> mine[i].date_of_service]

\* The consecutive pairs (i, i+1) of ds whose day gap is at least g
QualifyingPairs(ds, g) == {i \in 1..(Len(ds) - 1) : ds[i + 1] - ds[i] >= g}

\* The rows of an index-date frame that belong to member m
RowsOf(df, m) == {k \in 1..Len(df) : df[k].member_id_hash = m}

ResolverActed == pc = "find_valid_claims_window"

\* C1: a member with a consecutive pair of claims at least min_days_between
\* apart (and at least min_claims claims) gets exactly one record, dated at
\* the SECOND claim of the FIRST such pair.
C1_IndexIsSecondClaimOfFirstPair ==
    ResolverActed =>
        \A m \in Members :
            LET ds == ChronDates(inc_claims, m)
                qp == QualifyingPairs(ds, cfg.min_days_between)
            IN  (qp # {} /\ Len(ds) >= cfg.min_claims) =>
                    /\ Cardinality(RowsOf(index_dates, m)) = 1
                    /\ \A k \in RowsOf(index_dates, m) :
                           index_dates[k].index_date = ds[SetMin(qp) + 1]

\* What the code returns instead (C1): exactly one record, dated at the
\* FIRST claim of the first qualifying pair.
C1_CodeReturnsFirstClaimOfFirstPair ==
    ResolverActed =>
        \A m \in Members :
            LET ds == ChronDates(inc_claims, m)
                qp == QualifyingPairs(ds, cfg.min_days_between)
            IN  qp # {} =>
                    /\ Cardinality(RowsOf(index_dates, m)) = 1
                    /\ \A k \in RowsOf(index_dates, m) :
                           index_dates[k].index_date = ds[SetMin(qp)]

\* C2: a member all of whose consecutive pairs are closer than
\* min_days_between (a member with zero or one claim included) has no
\* record in the result.
C2_NoQualifyingPairNoRecord ==
    ResolverActed =>
        \A m \in Members :
            QualifyingPairs(ChronDates(inc_claims, m), cfg.min_days_between) = {}
                => RowsOf(index_dates, m) = {}

\* C2 witness: a member with three claims, every consecutive pair closer than
\* min_days_between, is absent from the result of the call.
C2_Witness ==
    /\ ResolverActed
    /\ \E m \in Members :
          /\ Len(ChronDates(inc_claims, m)) = 3
          /\ ChronDates(inc_claims, m)[1] < ChronDates(inc_claims, m)[3]
          /\ QualifyingPairs(ChronDates(inc_claims, m), cfg.min_days_between) = {}
          /\ RowsOf(index_dates, m) = {}

\* C3: for min_claims >= 2, every member in the result has at least
\* min_claims claims in the input.
C3_ResultMembersHaveMinClaims ==
    (ResolverActed /\ cfg.min_claims >= 2) =>
        \A k \in 1..Len(index_dates) :
            Len(ChronDates(inc_claims, index_dates[k].member_id_hash))
                >= cfg.min_claims

----------------------------------------------------------------------------
(* Specification of the code predicate on its own: a diagnoses table of up *)
(* to MaxStored rows queried with a list of up to MaxCodes patterns        *)

I10 == <<"I", "1", "0">>
I10_0 == <<"I", "1", "0", ".", "0">>
I10_9 == <<"I", "1", "0", ".", "9">>
I11 == <<"I", "1", "1">>
K58_0 == <<"K", "5", "8", ".", "0">>
K58_01 == <<"K", "5", "8", ".", "0", "1">>
I10_star == <<"I", "1", "0", ".", "*">>
I1star == <<"I", "1", "*">>
i10_lower == <<"i", "1", "0">>

StoredCodes == {I10, I10_0, I10_9, I11, K58_0, K58_01, i10_lower}
Patterns == {I10_star, I1star, I10, K58_0}

DxRow(m, d, code, type) ==
    [member_id_hash |-> m, date_of_service |-> d, icd_code |-> code,
     claim_type |-> type]

InitFilter ==
    /\ pc = "init"
    /\ \E dx \in SeqsUpTo({DxRow("M1", 0, c, "medical") : c \in StoredCodes},
                           MaxStored) :
          store = [EmptyStore EXCEPT !.dx = dx]
    /\ cfg \in [codes : SeqsUpTo(Patterns, MaxCodes)]
    /\ inc_claims = <<>>
    /\ index_dates = <<>>
    /\ result = NoResult

\* One diagnosis query built from _icd_code_sql_filter(cfg.codes)
QueryDiagnoses ==
    /\ pc = "init"
    /\ pc' = "query_diagnoses"
    /\ result' = IF FilterMalformed(IcdCodeSqlFilter(cfg.codes))
                 THEN Raised
                 ELSE Returned(DiagnosisQuery(store.dx, cfg.codes))
    /\ UNCHANGED <<store, cfg, inc_claims, index_dates>>

NextFilter == QueryDiagnoses

SpecFilter == InitFilter /\ [][NextFilter]_vars

----------------------------------------------------------------------------
(* Claims about the code predicate (checked under SpecFilter)              *)

StoredCodeSet == {store.dx[k].icd_code : k \in 1..Len(store.dx)}
SelectedCodeSet == {result.rows[k].icd_code : k \in 1..Len(result.rows)}

\* C10: the predicate built for the pattern I10.* selects the stored codes
\* I10, I10.0 and I10.9 and does not select I11.
C10_WildcardSelectsBaseCodeAndSubcodes ==
    (pc = "query_diagnoses" /\ cfg.codes = <<I10_star>>) =>
        /\ result.status = "returned"
        /\ StoredCodeSet \cap {I10, I10_0, I10_9} \subseteq SelectedCodeSet
        /\ I11 \notin SelectedCodeSet

\* What the code does instead (C10): LIKE 'I10.%' needs the dot, so I10.0
\* and I10.9 are selected and neither I10 nor I11 is.
C10_CodeSelectsDottedSubcodesOnly ==
    (pc = "query_diagnoses" /\ cfg.codes = <<I10_star>>) =>
        /\ result.status = "returned"
        /\ SelectedCodeSet = StoredCodeSet \cap {I10_0, I10_9}

\* C11: for an empty code list the predicate is well formed and selects no
\* row: the query built from it returns the empty claim set instead of
\* failing or selecting rows
C11_EmptyCodeListSelectsNothing ==
    (pc = "query_diagnoses" /\ cfg.codes = <<>>) =>
        /\ result.status = "returned"
        /\ result.rows = <<>>

\* What the code does instead (C11): the predicate text is empty and the
\* query raises
C11_EmptyCodeListRaises ==
    (pc = "query_diagnoses" /\ cfg.codes = <<>>) => result.status = "raised"

\* Does `code` begin with `prefix`
HasPrefix(code, prefix) ==
    /\ Len(code) >= Len(prefix)
    /\ SubSeq(code, 1, Len(prefix)) = prefix

\* C12: a single pattern without `*` and without `.` selects exactly the
\* stored codes equal to it; a pattern with `.` and without `*` selects
\* every stored code that has it as a prefix; casing is never normalised
C12_EqualityAndSeparatorPrefix ==
    (pc = "query_diagnoses" /\ Len(cfg.codes) = 1
        /\ "*" \notin Range(cfg.codes[1])) =>
        /\ result.status = "returned"
        /\ SelectedCodeSet =
              IF "." \in Range(cfg.codes[1])
              THEN {c \in StoredCodeSet : HasPrefix(c, cfg.codes[1])}
              ELSE {c \in StoredCodeSet : c = cfg.codes[1]}

\* What the code does instead (C12): without `*` the LIKE pattern holds no
\* `%`, so a pattern with a separator selects the equal codes only
C12_NoWildcardSelectsEqualCodes ==
    (pc = "query_diagnoses" /\ Len(cfg.codes) = 1
        /\ "*" \notin Range(cfg.codes[1])) =>
        /\ result.status = "returned"
        /\ SelectedCodeSet = {c \in StoredCodeSet : c = cfg.codes[1]}

----------------------------------------------------------------------------
(* Specification of the support evaluator on its own: a procedures table   *)
(* or a drugs table of up to MaxStored rows, a list of requested members   *)
(* and a list of up to MaxCodes codes / names                              *)

Cpt45378 == <<"4", "5", "3", "7", "8">>
AnyPattern == <<"*">>
Metformin == <<"m", "e", "t", "f", "o", "r", "m", "i", "n">>
LikeAny == <<"%">>

PxRow(m, d, code) ==
    [member_id_hash |-> m, date_of_service |-> d, proc_code |-> code]
RxRow(m, d, name, type) ==
    [member_id_hash |-> m, date_of_service |-> d,
     product_service_name |-> name, claim_type |-> type]

PxRows == {PxRow(m, 0, c) : m \in Members, c \in {Cpt45378, SentinelProcCode}}
RxRows == {RxRow(m, 0, n, t) : m \in Members,
                               n \in {Metformin, EmptyName, Null},
                               t \in {"pharma", "medical"}}
ProcPatterns == {Cpt45378, SentinelProcCode, AnyPattern}
DrugPatterns == {Metformin, LikeAny}
RequestedIds == SeqsUpTo(Members, 2)

InitSupport ==
    /\ pc = "init"
    /\ \/ /\ \E px \in SeqsUpTo(PxRows, MaxStored) :
                store = [EmptyStore EXCEPT !.px = px]
          /\ cfg \in [member_ids : RequestedIds,
                       codes : SeqsUpTo(ProcPatterns, MaxCodes)]
       \/ /\ \E rx \in SeqsUpTo(RxRows, MaxStored) :
                store = [EmptyStore EXCEPT !.rx = rx]
          /\ cfg \in [member_ids : RequestedIds,
                       codes : SeqsUpTo(DrugPatterns, MaxCodes)]
    /\ inc_claims = <<>>
    /\ index_dates = <<>>
    /\ result = NoResult

ReturnedMap(map) ==
    [status |-> "returned", rows |-> <<>>, map |-> map, error |-> ""]

CallBatchGetProcedureSupport ==
    /\ pc = "init"
    /\ pc' = "batch_get_procedure_support"
    /\ result' = ReturnedMap(BatchGetProcedureSupport(store.px, cfg.member_ids,
                                                      cfg.codes))
    /\ UNCHANGED <<store, cfg, inc_claims, index_dates>>

CallBatchGetDrugSupport ==
    /\ pc = "init"
    /\ pc' = "batch_get_drug_support"
    /\ result' = ReturnedMap(BatchGetDrugSupport(store.rx, cfg.member_ids,
                                                 cfg.codes))
    /\ UNCHANGED <<store, cfg, inc_claims, index_dates>>

NextSupport == CallBatchGetProcedureSupport \/ CallBatchGetDrugSupport

SpecSupport == InitSupport /\ [][NextSupport]_vars

----------------------------------------------------------------------------
(* Claims about the support evaluator (checked under SpecSupport)          *)

BatchActed == pc \in {"batch_get_procedure_support", "batch_get_drug_support"}

\* A claim of member m in the store that the called variant counts as support,
\* stated on the store: a procedure row with a listed code other than the
\* sentinel, or a pharmacy row with a listed, non-empty drug name
HasMatchingStoreRow(m) ==
    IF pc = "batch_get_procedure_support"
    THEN \E k \in 1..Len(store.px) :
            /\ store.px[k].member_id_hash = m
            /\ store.px[k].proc_code # SentinelProcCode
            /\ \E i \in 1..Len(cfg.codes) :
                   \/ cfg.codes[i] = store.px[k].proc_code
                   \/ cfg.codes[i] = AnyPattern
    ELSE \E k \in 1..Len(store.rx) :
            /\ store.rx[k].member_id_hash = m
            /\ store.rx[k].claim_type = "pharma"
            /\ store.rx[k].product_service_name \notin {EmptyName, Null}
            /\ \E i \in 1..Len(cfg.codes) :
                   \/ cfg.codes[i] = store.rx[k].product_service_name
                   \/ cfg.codes[i] = LikeAny

\* C9: the batch variants return a mapping whose key set is exactly the
\* requested members, each mapped to a boolean; a requested member with no
\* matching claim in the store (or with an empty code list) maps to false.
C9_BatchMapIsTotalOnRequested ==
    BatchActed =>
        /\ result.status = "returned"
        /\ DOMAIN result.map = Range(cfg.member_ids)
        /\ \A m \in DOMAIN result.map :
              /\ result.map[m] \in BOOLEAN
              /\ (~HasMatchingStoreRow(m) \/ cfg.codes = <<>>)
                    => result.map[m] = FALSE

\* C9 witness: two members requested, one with a matching claim mapped to
\* true, the other without one mapped to false.
C9_Witness ==
    /\ BatchActed
    /\ \E m, o \in Range(cfg.member_ids) :
          /\ m # o
          /\ HasMatchingStoreRow(m) /\ result.map[m] = TRUE
          /\ ~HasMatchingStoreRow(o) /\ result.map[o] = FALSE

----------------------------------------------------------------------------
(* Specification of inclusion + index-date resolution: a store of up to    *)
(* MaxIncl inclusion-coded diagnosis rows (tables are held in sorted       *)
(* order: every query that feeds an order-sensitive step has ORDER BY),    *)
(* per-member procedure and pharmacy rows, and every inclusion section     *)

IsSortedFrame(df) == \A i \in 1..(Len(df) - 1) : RowLeq(df[i], df[i + 1])

SortedFrames(Rows, n) == {df \in SeqsUpTo(Rows, n) : IsSortedFrame(df)}

\* One table row per member of ms, in member order
OneRowEach(ms, Row(_)) ==
    LET keys == GroupKeys(ms) IN [k \in 1..Len(keys) |-> Row(keys[k])]

\* Claim days of this store: same-day and too-close pairs, a qualifying pair,
\* and a span of more than a month
IndexDays == {0, MaxGap - 1, FarDay}
InclusionDx == {DxRow(m, d, K58_0, "medical") : m \in Members, d \in IndexDays}
SupportTables(Row(_)) == {OneRowEach(ms, Row) : ms \in SUBSET Members}

InclusionCfgs ==
    {[icd_codes |-> <<K58_0>>, min_claims |-> 2] @@ gap @@ proc @@ med @@ rb @@ wm :
        gap \in {NoKeys, [min_days_between_claims |-> MaxGap]},
        proc \in {NoKeys,
                  [allow_procedure |-> TRUE, procedure_codes |-> <<Cpt45378>>],
                  [allow_procedure |-> TRUE, procedure_codes |-> <<>>]},
        med \in {NoKeys,
                 [allow_medication |-> TRUE, medication_codes |-> <<Metformin>>],
                 [allow_medication |-> TRUE, medication_codes |-> <<>>]},
        rb \in {NoKeys} \cup [require_both_procedure_and_medication : BOOLEAN],
        wm \in {NoKeys, [within_months |-> 1]}}

InitIndex ==
    /\ pc = "init"
    /\ \E dx \in SortedFrames(InclusionDx, MaxIncl),
          px \in SupportTables(LAMBDA m : PxRow(m, 0, Cpt45378)),
          rx \in SupportTables(LAMBDA m : RxRow(m, 0, Metformin, "pharma")) :
          store = [EmptyStore EXCEPT !.dx = dx, !.px = px, !.rx = rx]
    /\ cfg \in InclusionCfgs
    /\ inc_claims = <<>>
    /\ index_dates = <<>>
    /\ result = NoResult

CallGetInclusionClaimsAdvanced ==
    /\ pc = "init"
    /\ IF InclusionQueryRaises(cfg)
       THEN /\ pc' = "raised"
            /\ result' = Raised
            /\ UNCHANGED inc_claims
       ELSE /\ pc' = "get_inclusion_claims_advanced"
            /\ inc_claims' = GetInclusionClaimsAdvanced(store, cfg)
            /\ result' = Returned(inc_claims')
    /\ UNCHANGED <<store, cfg, index_dates>>

CallFindIndexDatesWindow ==
    /\ pc = "get_inclusion_claims_advanced"
    /\ pc' = "find_index_dates_window"
    /\ index_dates' = FindIndexDatesWindow(store, inc_claims, cfg)
    /\ result' = Returned(index_dates')
    /\ UNCHANGED <<store, cfg, inc_claims>>

NextIndex == CallGetInclusionClaimsAdvanced \/ CallFindIndexDatesWindow

SpecIndex == InitIndex /\ [][NextIndex]_vars

----------------------------------------------------------------------------
(* Claims about find_index_dates_window (checked under SpecIndex)          *)

MembersOf(df) == {df[k].member_id_hash : k \in 1..Len(df)}

IndexActed == pc = "find_index_dates_window"

RbKey == "require_both_procedure_and_medication"

\* The same inclusion section with require_both set to b
WithRequireBoth(inclusion_cfg, b) == (RbKey :> b) @@ inclusion_cfg

\* Support as the store shows it: the member has a row in the procedures
\* table (every row carries the configured code) / in the drugs table
HasProcedureRow(m) == \E k \in 1..Len(store.px) : store.px[k].member_id_hash = m
HasPharmacyRow(m) == \E k \in 1..Len(store.rx) : store.rx[k].member_id_hash = m

ProcedureConfigured ==
    /\ "allow_procedure" \in DOMAIN cfg /\ cfg.allow_procedure
    /\ "procedure_codes" \in DOMAIN cfg /\ cfg.procedure_codes # <<>>
MedicationConfigured ==
    /\ "allow_medication" \in DOMAIN cfg /\ cfg.allow_medication
    /\ "medication_codes" \in DOMAIN cfg /\ cfg.medication_codes # <<>>

\* C7: on the same claims, support data and inclusion section, the members
\* returned with require_both = true are a subset of those returned with
\* require_both = false, whichever support checks are configured.  The
\* returned frame is one side; the other side is the same call with the flag
\* flipped.
C7_RequireBothSubsetOfEither ==
    IndexActed =>
        LET flipped == FindIndexDatesWindow(store, inc_claims,
                           WithRequireBoth(cfg, ~RequireBoth(cfg)))
        IN  IF RequireBoth(cfg)
            THEN MembersOf(index_dates) \subseteq MembersOf(flipped)
            ELSE MembersOf(flipped) \subseteq MembersOf(index_dates)

\* C7 witness: both checks configured, the call ran with require_both =
\* true and returned strictly fewer members than require_both = false does.
C7_Witness ==
    /\ IndexActed
    /\ ProcedureConfigured /\ MedicationConfigured
    /\ RbKey \in DOMAIN cfg /\ cfg[RbKey] = TRUE
    /\ index_dates # <<>>
    /\ MembersOf(index_dates) #
          MembersOf(FindIndexDatesWindow(store, inc_claims, WithRequireBoth(cfg, FALSE)))

\* C8: with both checks configured, the retained members are the
\* window-qualified members with procedure AND medication support when
\* require_both is true or absent, and those with procedure OR medication
\* support when it is false.
C8_BothConfiguredAndOr ==
    (IndexActed /\ ProcedureConfigured /\ MedicationConfigured) =>
        LET qualified == MembersOf(WindowQualified(inc_claims, cfg))
            both == RbKey \notin DOMAIN cfg \/ cfg[RbKey] = TRUE
        IN  MembersOf(index_dates) =
                IF both
                THEN {m \in qualified : HasProcedureRow(m) /\ HasPharmacyRow(m)}
                ELSE {m \in qualified : HasProcedureRow(m) \/ HasPharmacyRow(m)}

\* C8 witness: require_both = false keeps a qualified member with procedure
\* support only and drops a qualified member with neither.
C8_Witness ==
    /\ IndexActed /\ ProcedureConfigured /\ MedicationConfigured
    /\ RbKey \in DOMAIN cfg /\ cfg[RbKey] = FALSE
    /\ \E m, o \in MembersOf(WindowQualified(inc_claims, cfg)) :
          /\ HasProcedureRow(m) /\ ~HasPharmacyRow(m)
          /\ m \in MembersOf(index_dates)
          /\ ~HasProcedureRow(o) /\ ~HasPharmacyRow(o)
          /\ o \notin MembersOf(index_dates)

\* C8 witness for the default: the key is absent and a qualified member with
\* procedure support only is dropped.
C8_WitnessDefault ==
    /\ IndexActed /\ ProcedureConfigured /\ MedicationConfigured
    /\ RbKey \notin DOMAIN cfg
    /\ \E m \in MembersOf(WindowQualified(inc_claims, cfg)) :
          /\ HasProcedureRow(m) /\ ~HasPharmacyRow(m)
          /\ m \notin MembersOf(index_dates)

----------------------------------------------------------------------------
(* Specification of the exclusion steps on their own: an index-date frame  *)
(* with at most one record per member, a diagnoses table of up to          *)
(* MaxStored rows, and an exclusion section for one of the two functions   *)

K58_1 == <<"K", "5", "8", ".", "1">>
K50_0 == <<"K", "5", "0", ".", "0">>
K50_star == <<"K", "5", "0", ".", "*">>
E11_9 == <<"E", "1", "1", ".", "9">>
O24_4 == <<"O", "2", "4", ".", "4">>

IndexRecord(m, d) == [member_id_hash |-> m, index_date |-> d]

\* Index-date frames as the resolvers emit them: member order, one record
\* per member at most
IndexFrames ==
    {SelectSeq(<<f["M1"], f["M2"]>>, LAMBDA r : r.index_date >= 0) :
        f \in {g \in [Members -> {IndexRecord(m, d) : m \in Members,
                                                     d \in {-1, 1, FarDay}}] :
                  \A m \in Members : g[m].member_id_hash = m}}

AdvancedExclusionCfgs ==
    {sub @@ org @@ other :
        sub \in {NoKeys, [subtypes |-> <<K58_1>>],
                 [subtypes |-> <<>>, subtype_window_days |-> 0]}
                \cup {[subtypes |-> <<K58_1>>, subtype_window_days |-> w] :
                         w \in 0..MaxGap},
        org \in {NoKeys}
                \cup {[organic_gi |-> <<K50_star>>, organic_gi_window_days |-> w] :
                         w \in {0, MaxGap}},
        other \in {NoKeys, [icd_codes |-> <<K50_star>>]}}

\* A cohort name with one cohort-specific exclusion key (or none)
DiabetesKeyChoices ==
    {<<"Diabetes_NoComp", "esrd_codes">>, <<"Diabetes_NoComp", "ckd5_codes">>,
     <<"Diabetes_NoComp", "htn_codes">>, <<"Diabetes_NoComp", "">>,
     <<"Diabetes_HTN", "esrd_codes">>, <<"Diabetes_HTN", "ckd5_codes">>,
     <<"Diabetes_HTN", "htn_codes">>, <<"Diabetes_HTN", "">>,
     <<"Diabetes_Kidney", "ckd_stages_1_4">>, <<"Diabetes_Kidney", "esrd_codes">>,
     <<"Diabetes_Kidney", "">>,
     <<"GDM", "pre_existing_diabetes">>, <<"GDM", "o9981_code">>, <<"GDM", "">>,
     <<"PreDiabetes", "o9981_code">>, <<"PreDiabetes", "">>}

DiabetesCalls ==
    {[call |-> "apply_diabetes_exclusions", cohort_name |-> c[1],
      exclusion |-> d @@ g @@ (IF c[2] = "" THEN NoKeys ELSE c[2] :> <<E11_9>>)] :
        c \in DiabetesKeyChoices,
        d \in {NoKeys, [diabetes_codes |-> <<E11_9>>]},
        g \in {NoKeys, [gdm_codes |-> <<O24_4>>], [gdm_codes |-> <<>>]}}

AdvancedCalls ==
    {[call |-> "apply_exclusions_advanced", cohort_name |-> "IBS", exclusion |-> e] :
        e \in AdvancedExclusionCfgs}

InitExcl ==
    /\ pc = "init"
    /\ \/ /\ cfg \in AdvancedCalls
          /\ \E dx \in SortedFrames({DxRow(m, d, c, "medical") :
                           m \in Members, d \in Dates, c \in {K58_1, K50_0}},
                                     MaxStored) :
                store = [EmptyStore EXCEPT !.dx = dx]
       \/ /\ cfg \in DiabetesCalls
          /\ \E dx \in SortedFrames({DxRow(m, d, c, "medical") :
                           m \in Members, d \in Dates, c \in {E11_9, O24_4}},
                                     MaxStored) :
                store = [EmptyStore EXCEPT !.dx = dx]
    /\ inc_claims = <<>>
    /\ index_dates \in IndexFrames
    /\ result = NoResult

\* The outcome of an exclusion call as the result of the operation
AsResult(outcome) ==
    [steps |-> outcome.steps, columns |-> outcome.columns]
        @@ (IF outcome.status = "raised" THEN RaisedWith(outcome.error)
            ELSE Returned(outcome.rows))

CallApplyExclusionsAdvanced ==
    /\ pc = "init"
    /\ cfg.call = "apply_exclusions_advanced"
    /\ pc' = "apply_exclusions_advanced"
    /\ \E o \in ApplyExclusionsAdvanced(store, index_dates, cfg.exclusion) :
          result' = AsResult(o)
    /\ UNCHANGED <<store, cfg, inc_claims, index_dates>>

CallApplyDiabetesExclusions ==
    /\ pc = "init"
    /\ cfg.call = "apply_diabetes_exclusions"
    /\ pc' = "apply_diabetes_exclusions"
    /\ \E o \in ApplyDiabetesExclusions(store, cfg.cohort_name, index_dates,
                                         cfg.exclusion) :
          result' = AsResult(o)
    /\ UNCHANGED <<store, cfg, inc_claims, index_dates>>

NextExcl == CallApplyExclusionsAdvanced \/ CallApplyDiabetesExclusions

SpecExcl == InitExcl /\ [][NextExcl]_vars

\* The exclusion call has returned a frame
ExclActed ==
    /\ pc \in {"apply_exclusions_advanced", "apply_diabetes_exclusions"}
    /\ result.status = "returned"

\* C5: every exclusion step is a pure removal: the (member, index_date)
\* records returned by apply_exclusions_advanced and by
\* apply_diabetes_exclusions are records of the input frame, no more of them
\* than the input holds, so no member or date is added or altered
C5_ExclusionIsPureRemoval ==
    ExclActed =>
        /\ Range(result.rows) \subseteq Range(index_dates)
        /\ Len(result.rows) <= Len(index_dates)

\* A diabetes exclusion that removed one member's record and kept the other
C5_Witness ==
    /\ pc = "apply_diabetes_exclusions"
    /\ result.status = "returned"
    /\ Len(index_dates) = 2
    /\ Len(result.rows) = 1

\* Does the member of `row` hold a claim with stored code `code` no further
\* than `window` days from the record's index date, either side
ClaimWithinWindow(row, code, window) ==
    \E k \in 1..Len(store.dx) :
        /\ store.dx[k].icd_code = code
        /\ store.dx[k].member_id_hash = row.member_id_hash
        /\ store.dx[k].date_of_service - row.index_date <= window
        /\ row.index_date - store.dx[k].date_of_service <= window

SubtypeWindowed ==
    {"subtypes", "subtype_window_days"} \subseteq DOMAIN cfg.exclusion

OrganicWindowed ==
    {"organic_gi", "organic_gi_window_days"} \subseteq DOMAIN cfg.exclusion

\* C6: under the windowed subtype / organic-condition exclusion with window
\* W, a record is removed if and only if the same member has a claim with a
\* matching exclusion code dated d with |d - index_date| <= W, both
\* directions, bounds inclusive; other members' claims never remove it
C6_WindowedExclusionIff ==
    (pc = "apply_exclusions_advanced" /\ result.status = "returned") =>
        \A k \in 1..Len(index_dates) :
            (index_dates[k] \notin Range(result.rows))
            <=> \/ /\ SubtypeWindowed
                   /\ ClaimWithinWindow(index_dates[k], K58_1,
                                        cfg.exclusion["subtype_window_days"])
                \/ /\ OrganicWindowed
                   /\ ClaimWithinWindow(index_dates[k], K50_0,
                                        cfg.exclusion["organic_gi_window_days"])

\* One record removed by a claim exactly W > 0 days before its index date,
\* the other member's record retained although that member holds a subtype
\* claim, which lies outside the window
C6_Witness ==
    /\ pc = "apply_exclusions_advanced"
    /\ result.status = "returned"
    /\ SubtypeWindowed
    /\ cfg.exclusion["subtype_window_days"] > 0
    /\ Len(index_dates) = 2
    /\ result.rows = <<index_dates[2]>>
    /\ \E k \in 1..Len(store.dx) :
          /\ store.dx[k].member_id_hash = index_dates[1].member_id_hash
          /\ store.dx[k].icd_code = K58_1
          /\ index_dates[1].index_date - store.dx[k].date_of_service
                = cfg.exclusion["subtype_window_days"]
    /\ \E k \in 1..Len(store.dx) :
          /\ store.dx[k].member_id_hash = index_dates[2].member_id_hash
          /\ store.dx[k].icd_code = K58_1

----------------------------------------------------------------------------
(* Specification of build_cohort: a diagnoses table of inclusion and       *)
(* subtype claims, a members table that may hold no row or several rows    *)
(* for a member, and one of a catalogue of configurations                  *)

MaxMemberRows == 3
MaxBuildRows == 4

MemberRow(m) == [member_id_hash |-> m, gender |-> "F"]
MembersTables == SeqsUpTo({MemberRow(m) : m \in Members}, MaxMemberRows)

BuildDx ==
    InclusionDx
        \cup {DxRow(m, d, K58_1, "medical") : m \in Members, d \in {0, FarDay}}

BuildCohortCfgs ==
    {[inclusion |-> [icd_codes |-> <<K58_0>>, min_claims |-> 2] @@ gap] @@ excl :
        gap \in {NoKeys, [min_days_between_claims |-> MaxGap]},
        excl \in {NoKeys, [exclusion |-> NoKeys],
                  [exclusion |-> [subtypes |-> <<>>, subtype_window_days |-> 0]]}
                 \cup {[exclusion |-> [subtypes |-> <<K58_1>>,
                                       subtype_window_days |-> w]] :
                          w \in {0, MaxGap}}}

\* What a function registered for a name returns
RegisteredFrame ==
    <<[member_id_hash |-> "M2", index_date |-> FarDay, cohort |-> "custom"]>>
RegisteredFunction ==
    ReturnedFrame(RegisteredFrame, IndexColumns \cup {"cohort"})

BuildCalls ==
    {[cohort_name |-> "IBS", cohorts |-> ("IBS" :> c), registry |-> NoKeys] :
        c \in BuildCohortCfgs}
    \cup {[cohort_name |-> n,
           cohorts |-> ("IBS" :> [inclusion |-> [icd_codes |-> <<K58_0>>,
                                                 min_claims |-> 2]]),
           registry |-> r] :
            n \in {"IBS", "Unlisted"},
            r \in {NoKeys, "IBS" :> RegisteredFunction,
                   "Unlisted" :> RegisteredFunction}}

InitBuild ==
    /\ pc = "init"
    /\ \E dx \in SortedFrames(BuildDx, MaxBuildRows), members \in MembersTables :
          store = [EmptyStore EXCEPT !.dx = dx, !.members = members]
    /\ cfg \in BuildCalls
    /\ inc_claims = <<>>
    /\ index_dates = <<>>
    /\ result = NoResult

CallBuildCohort ==
    /\ pc = "init"
    /\ \E o \in BuildCohort(store, cfg.cohorts, cfg.registry, cfg.cohort_name) :
          /\ result' = AsResult(o)
          /\ pc' = IF o.status = "raised" THEN "raised" ELSE "build_cohort"
    /\ UNCHANGED <<store, cfg, inc_claims, index_dates>>

NextBuild == CallBuildCohort

SpecBuild == InitBuild /\ [][NextBuild]_vars

\* build_cohort has returned a table
BuildActed == pc = "build_cohort" /\ result.status = "returned"

\* C4: in the result returned by build_cohort every member identifier
\* appears in at most one row, for every claims store and every members
\* table, a members table with several rows for one member included
C4_MemberAtMostOncePerCohort ==
    BuildActed =>
        \A i, j \in 1..Len(result.rows) :
            result.rows[i].member_id_hash = result.rows[j].member_id_hash => i = j

\* The members table holds one row per member identifier at most
MembersTableUnique ==
    \A i, j \in 1..Len(store.members) :
        store.members[i].member_id_hash = store.members[j].member_id_hash => i = j

\* What the join guarantees: one row per member when the members table
\* itself holds no member twice
C4_AtMostOnceGivenUniqueMembersTable ==
    (BuildActed /\ MembersTableUnique) =>
        \A i, j \in 1..Len(result.rows) :
            result.rows[i].member_id_hash = result.rows[j].member_id_hash => i = j

\* The requested name is neither registered nor in the configuration
UnknownName ==
    /\ cfg.cohort_name \notin DOMAIN cfg.registry
    /\ cfg.cohort_name \notin DOMAIN cfg.cohorts

\* The generic pipeline runs with a windowed subtype exclusion whose code
\* list is empty: the exclusion query is not SQL
MalformedExclusionQuery ==
    /\ cfg.cohort_name \notin DOMAIN cfg.registry
    /\ cfg.cohort_name \in DOMAIN cfg.cohorts
    /\ "exclusion" \in DOMAIN cfg.cohorts[cfg.cohort_name]
    /\ {"subtypes", "subtype_window_days"}
          \subseteq DOMAIN cfg.cohorts[cfg.cohort_name].exclusion
    /\ cfg.cohorts[cfg.cohort_name].exclusion.subtypes = <<>>

\* C15: when a step of the pipeline inside build_cohort raises, build_cohort
\* raises that same exception to its caller and returns no result: a
\* failing step never yields a partial or empty cohort table
C15_BuildFailurePropagates ==
    pc # "init" =>
        /\ UnknownName =>
              /\ pc = "raised"
              /\ result.status = "raised" /\ result.error = "KeyError"
        /\ MalformedExclusionQuery =>
              /\ pc = "raised"
              /\ result.status = "raised" /\ result.error = "DatabaseError"
        /\ result.status = "returned" =>
              \/ cfg.cohort_name \in DOMAIN cfg.registry
              \/ result.steps[Len(result.steps)] = "add_member_info"
        /\ result.status = "raised" => result.rows = <<>> /\ result.columns = {}

\* build_cohort raised KeyError for a name that is neither registered nor
\* configured
C15_Witness ==
    /\ pc = "raised"
    /\ UnknownName
    /\ result.error = "KeyError"

\* C19: the table returned by build_cohort carries the columns member
\* identifier, index_date and cohort, and the cohort label of every row is
\* the cohort's name, also when no member qualifies and when the cohort is
\* built by a registered function
C19_ResultCarriesCohortColumns ==
    pc = "build_cohort" =>
        /\ IndexColumns \cup {"cohort"} \subseteq result.columns
        /\ \A k \in 1..Len(result.rows) : result.rows[k].cohort = cfg.cohort_name

\* What the code guarantees (C19): a table of the generic pipeline with at
\* least one row has the three columns and the cohort's name in every
\* row; its table without rows has the cohort column alone
C19_GenericResultColumns ==
    (pc = "build_cohort" /\ cfg.cohort_name \notin DOMAIN cfg.registry) =>
        /\ \A k \in 1..Len(result.rows) : result.rows[k].cohort = cfg.cohort_name
        /\ IF result.rows = <<>>
           THEN result.columns = {"cohort"}
           ELSE IndexColumns \cup {"cohort"} \subseteq result.columns

----------------------------------------------------------------------------
(* Construction of the builder: the configuration check and the store      *)
(* schema check of CohortBuilder.__init__                                  *)

EXPECTED_DB_SCHEMA ==
    <<[table |-> "claims_entries",
       columns |-> <<"claim_entry_id", "member_id_hash", "date_of_service",
                     "claim_type">>],
      [table |-> "claims_diagnoses", columns |-> <<"claim_entry_id", "icd_code">>],
      [table |-> "members", columns |-> <<"member_id_hash">>],
      [table |-> "claims_members_monthly_utilization",
       columns |-> <<"member_id_hash">>]>>

\* A schema check that looks at the tables and not at their columns
RECURSIVE CheckDbSchemaTablesOnly(_, _)
CheckDbSchemaTablesOnly(expected, schema) ==
    IF expected = <<>> THEN ReturnedFrame(<<>>, {})
    ELSE IF Head(expected).table \notin DOMAIN schema
         THEN RaisedOutcome("RuntimeError")
         ELSE CheckDbSchemaTablesOnly(Tail(expected), schema)

\* check_db_schema: the expected tables in order; the first missing table
\* or missing column raises RuntimeError.  `schema` maps each table of the
\* store to its set of columns.
RECURSIVE CheckDbSchema(_, _)
CheckDbSchema(expected, schema) ==
    IF expected = <<>> THEN ReturnedFrame(<<>>, {})
    ELSE IF Head(expected).table \notin DOMAIN schema
         THEN RaisedOutcome("RuntimeError")
    ELSE IF \E k \in 1..Len(Head(expected).columns) :
                Head(expected).columns[k] \notin schema[Head(expected).table]
         THEN RaisedOutcome("RuntimeError")
         ELSE CheckDbSchema(Tail(expected), schema)

\* A constructor without the `inclusion` check
CohortBuilderInitUnchecked(cohorts, schema) ==
    CheckDbSchema(EXPECTED_DB_SCHEMA, schema)

\* CohortBuilder.__init__: ValueError for a cohort without `inclusion`,
\* then the schema check; returning means the builder exists
CohortBuilderInit(cohorts, schema) ==
    IF \E name \in DOMAIN cohorts : "inclusion" \notin DOMAIN cohorts[name]
    THEN RaisedOutcome("ValueError")
    ELSE CheckDbSchema(EXPECTED_DB_SCHEMA, schema)

----------------------------------------------------------------------------
(* Specification of construction followed by one build: a configuration of *)
(* up to two cohorts, each with or without its inclusion section, and a    *)
(* store whose expected tables may be missing or lack one column           *)

CohortNames == {"IBS", "GERD"}
CompleteCohort == [inclusion |-> [icd_codes |-> <<K58_0>>, min_claims |-> 2]]
CohortWithoutInclusion == [exclusion |-> NoKeys]

CohortsSections ==
    UNION {[names -> {CompleteCohort, CohortWithoutInclusion}] :
              names \in SUBSET CohortNames}

\* The column sets a table of the store can have: all the required ones,
\* or all but one
ColumnSets(columns) ==
    {Range(columns)} \cup {Range(columns) \ {c} : c \in Range(columns)}

ExpectedColumns(table) ==
    (CHOOSE e \in Range(EXPECTED_DB_SCHEMA) : e.table = table).columns

ExpectedTables == {EXPECTED_DB_SCHEMA[k].table : k \in 1..Len(EXPECTED_DB_SCHEMA)}

\* Every store schema: some of the expected tables, each with all or all
\* but one of its required columns
StoreSchemas ==
    {[t \in tables |-> sch[t]] :
        tables \in SUBSET ExpectedTables,
        sch \in {f \in [ExpectedTables ->
                          UNION {ColumnSets(ExpectedColumns(t)) : t \in ExpectedTables}] :
                    \A t \in ExpectedTables : f[t] \in ColumnSets(ExpectedColumns(t))}}

InitSetup ==
    /\ pc = "init"
    /\ \E dx \in SortedFrames(InclusionDx, MaxStored), sch \in StoreSchemas :
          store = ("schema" :> sch) @@ [EmptyStore EXCEPT !.dx = dx]
    /\ cfg \in {[cohort_name |-> n, cohorts |-> cs, registry |-> NoKeys] :
                  n \in CohortNames, cs \in CohortsSections}
    /\ inc_claims = <<>>
    /\ index_dates = <<>>
    /\ result = NoResult

ConstructCohortBuilder ==
    /\ pc = "init"
    /\ LET o == CohortBuilderInit(cfg.cohorts, store.schema)
       IN  IF o.status = "raised"
           THEN pc' = "raised" /\ result' = RaisedWith(o.error)
           ELSE pc' = "constructed" /\ UNCHANGED result
    /\ UNCHANGED <<store, cfg, inc_claims, index_dates>>

\* build_cohort on a builder that exists
CallBuildCohortOnBuilder ==
    /\ pc = "constructed"
    /\ \E o \in BuildCohort(store, cfg.cohorts, cfg.registry, cfg.cohort_name) :
          /\ result' = AsResult(o)
          /\ pc' = IF o.status = "raised" THEN "raised" ELSE "build_cohort"
    /\ UNCHANGED <<store, cfg, inc_claims, index_dates>>

NextSetup == ConstructCohortBuilder \/ CallBuildCohortOnBuilder

SpecSetup == InitSetup /\ [][NextSetup]_vars

\* Some cohort of the configuration has no inclusion section
LacksInclusion ==
    \E name \in DOMAIN cfg.cohorts : "inclusion" \notin DOMAIN cfg.cohorts[name]

\* C13: if any cohort of the configuration lacks `inclusion`, construction
\* fails with ValueError, no builder exists afterwards and no cohort is
\* ever built from that configuration, the complete cohorts included
C13_MissingInclusionFailsConstruction ==
    LacksInclusion =>
        /\ pc \in {"init", "raised"}
        /\ pc = "raised" => result = RaisedWith("ValueError")

\* Construction failed although the requested cohort is complete and the
\* store has the whole schema: the other cohort lacks its inclusion section
C13_Witness ==
    /\ pc = "raised"
    /\ result.error = "ValueError"
    /\ cfg.cohort_name \in DOMAIN cfg.cohorts
    /\ cfg.cohorts[cfg.cohort_name] = CompleteCohort
    /\ CheckDbSchema(EXPECTED_DB_SCHEMA, store.schema).status = "returned"

\* A table of the expected schema is missing from the store, or lacks one
\* of its required columns
SchemaIncomplete ==
    \E k \in 1..Len(EXPECTED_DB_SCHEMA) :
        \/ EXPECTED_DB_SCHEMA[k].table \notin DOMAIN store.schema
        \/ ~(Range(EXPECTED_DB_SCHEMA[k].columns)
                \subseteq store.schema[EXPECTED_DB_SCHEMA[k].table])

----------------------------------------------------------------------------
(* Specification of the registry: up to MaxRegistrations calls of          *)
(* cohort_logic on the registry the module creates, then one build         *)

MaxRegistrations == 2

\* A missing index date
NaT == -1

\* The cohorts the builder holds a dedicated resolver for
ConditionSpecificCohorts ==
    {"Metabolic_Syndrome", "PCOS", "PreDiabetes", "GDM", "Diabetes_NoComp",
     "Diabetes_HTN", "Diabetes_Kidney"}

DispatchNames == {"IBS", "PCOS", "Unlisted"}

\* What the functions handed to cohort_logic return or raise
FnBare ==
    ReturnedFrame(<<[member_id_hash |-> "M1", index_date |-> 0]>>, IndexColumns)
FnNullDate ==
    ReturnedFrame(<<[member_id_hash |-> "M1", index_date |-> NaT]>>, IndexColumns)
FnRaises == RaisedOutcome("RuntimeError")
RegisteredFunctions == {RegisteredFunction, FnBare, FnNullDate, FnRaises}

InitDispatch ==
    /\ pc = "init"
    /\ \E dx \in SortedFrames(InclusionDx, MaxStored),
          members \in {<<>>, <<MemberRow("M1")>>} :
          store = [EmptyStore EXCEPT !.dx = dx, !.members = members]
    /\ cfg \in {[cohort_name |-> n,
                  cohorts |-> [c \in {"IBS", "PCOS"} |-> CompleteCohort],
                  registry |-> COHORT_LOGIC_REGISTRY,
                  registered |-> <<>>] : n \in DispatchNames}
    /\ inc_claims = <<>>
    /\ index_dates = <<>>
    /\ result = NoResult

\* @cohort_logic(name) def fn ...: one more registration, noted in
\* cfg.registered in the order of the calls
CallCohortLogic ==
    /\ pc = "init"
    /\ Len(cfg.registered) < MaxRegistrations
    /\ \E name \in DispatchNames, fn \in RegisteredFunctions :
          cfg' = [cfg EXCEPT !.registry = CohortLogic(@, name, fn),
                             !.registered = Append(@, [name |-> name, fn |-> fn])]
    /\ UNCHANGED <<pc, store, inc_claims, index_dates, result>>

NextDispatch == CallCohortLogic \/ CallBuildCohort

SpecDispatch == InitDispatch /\ [][NextDispatch]_vars

\* The registrations made for the requested name, in call order
RegistrationsOfName ==
    SelectSeq(cfg.registered, LAMBDA call : call.name = cfg.cohort_name)

\* C16: once cohort_logic has registered a function for the name,
\* build_cohort hands back what that function hands back without running a
\* step of the generic pipeline, also for a name the configuration does
\* not hold; the function registered last for the name is the one called
C16_RegisteredFunctionAnswers ==
    (pc # "init" /\ RegistrationsOfName # <<>>) =>
        /\ result = AsResult(RegistrationsOfName[Len(RegistrationsOfName)].fn)
        /\ result.steps = <<>>

\* A name outside the configuration, registered twice with different
\* functions: the build returned the table of the second
C16_Witness ==
    /\ pc = "build_cohort"
    /\ cfg.cohort_name \notin DOMAIN cfg.cohorts
    /\ Len(RegistrationsOfName) = 2
    /\ RegistrationsOfName[1].fn # RegistrationsOfName[2].fn
    /\ result.rows = RegistrationsOfName[2].fn.rows

\* C17: build_cohort for a condition-specific cohort is answered by that
\* cohort's dedicated resolver through the registry, and the generic
\* pipeline is not executed for it
C17_ConditionSpecificUsesRegistry ==
    (pc # "init" /\ cfg.cohort_name \in ConditionSpecificCohorts) =>
        /\ cfg.cohort_name \in DOMAIN cfg.registry
        /\ result.steps = <<>>

\* What the code does instead (C17): the module registers nothing, so
\* without a registration made by the caller a configured condition-specific
\* cohort runs the generic pipeline
C17_UnregisteredRunsGenericPipeline ==
    (pc # "init" /\ cfg.cohort_name \in ConditionSpecificCohorts
        /\ cfg.cohort_name \in DOMAIN cfg.cohorts
        /\ RegistrationsOfName = <<>>) =>
        /\ result.steps # <<>>
        /\ result.steps[1] = "get_inclusion_claims_advanced"

\* C18: every row of a table returned by build_cohort has a member
\* identifier and an index date that are not null, on the generic path and
\* on the registry path
C18_ReturnedRowsNotNull ==
    pc = "build_cohort" =>
        \A k \in 1..Len(result.rows) : result.rows[k].index_date # NaT

\* What the code guarantees (C18): rows that came through the generic
\* pipeline have an index date
C18_GenericRowsNotNull ==
    (pc = "build_cohort" /\ cfg.cohort_name \notin DOMAIN cfg.registry) =>
        \A k \in 1..Len(result.rows) : result.rows[k].index_date # NaT

----------------------------------------------------------------------------
(* Specification of a rebuild: one cohort built twice on the same claims   *)
(* and configuration; between the two builds the day may change and the    *)
(* store may hand its rows back in another order                           *)

\* A day more than a year after every claim of the store
LaterDay == DaysPerYear + FarDay + 1

\* The orders in which the store can return the rows of a table
Reorderings(df) ==
    {[k \in 1..Len(df) |-> df[f[k]]] :
        f \in {g \in [1..Len(df) -> 1..Len(df)] :
                  \A i, j \in 1..Len(df) : g[i] = g[j] => i = j}}

RebuildCohortCfgs ==
    {[inclusion |-> [icd_codes |-> <<K58_0>>, min_claims |-> 2] @@ range] @@ excl :
        range \in {NoKeys, [date_range_years |-> 1]},
        excl \in {NoKeys,
                  [exclusion |-> [subtypes |-> <<K58_1>>,
                                  subtype_window_days |-> MaxGap]]}}

InitRebuild ==
    /\ pc = "init"
    /\ \E dx \in SeqsUpTo(BuildDx, MaxStored) :
          store = [EmptyStore EXCEPT !.dx = dx, !.members = <<MemberRow("M1")>>]
    /\ cfg \in {[cohort_name |-> "IBS", cohorts |-> ("IBS" :> c),
                  registry |-> COHORT_LOGIC_REGISTRY] : c \in RebuildCohortCfgs}
    /\ inc_claims = <<>>
    /\ index_dates = <<>>
    /\ result = NoResult

\* CURRENT_DATE of the database moves on between the two builds
ClockAdvances ==
    /\ pc \in {"build_cohort", "raised"}
    /\ store.today < LaterDay
    /\ store' = [store EXCEPT !.today = LaterDay]
    /\ UNCHANGED <<pc, cfg, inc_claims, index_dates, result>>

\* The tables return the same rows in another order
StoreReorders ==
    /\ pc \in {"build_cohort", "raised"}
    /\ \E dx \in Reorderings(store.dx) \ {store.dx} :
          store' = [store EXCEPT !.dx = dx]
    /\ UNCHANGED <<pc, cfg, inc_claims, index_dates, result>>

\* build_cohort once more; result.previous keeps what the first build gave
CallBuildCohortAgain ==
    /\ pc \in {"build_cohort", "raised"}
    /\ pc' = "rebuilt"
    /\ \E o \in BuildCohort(store, cfg.cohorts, cfg.registry, cfg.cohort_name) :
          result' = [previous |-> result] @@ AsResult(o)
    /\ UNCHANGED <<store, cfg, inc_claims, index_dates>>

NextRebuild ==
    CallBuildCohort \/ ClockAdvances \/ StoreReorders \/ CallBuildCohortAgain

SpecRebuild == InitRebuild /\ [][NextRebuild]_vars

\* The (member, index_date) records of a table
RecordsOf(rows) ==
    {[member_id_hash |-> rows[k].member_id_hash, index_date |-> rows[k].index_date] :
        k \in 1..Len(rows)}

\* C20: building the same cohort twice on unchanged claims and
\* configuration gives identical (member, index_date) records, whatever
\* the order in which the store returns its rows and whenever the two
\* builds run
C20_RebuildGivesSameRecords ==
    (pc = "rebuilt" /\ result.status = "returned"
        /\ result.previous.status = "returned") =>
        RecordsOf(result.rows) = RecordsOf(result.previous.rows)

\* What the code guarantees (C20): the same records when both builds run
\* on the same day or the configuration has no date_range_years
C20_SameRecordsOnSameDay ==
    (pc = "rebuilt" /\ result.status = "returned"
        /\ result.previous.status = "returned"
        /\ \/ store.today = 0
           \/ "date_range_years" \notin DOMAIN cfg.cohorts[cfg.cohort_name].inclusion) =>
        RecordsOf(result.rows) = RecordsOf(result.previous.rows)

----------------------------------------------------------------------------
(* Specification of the within_months test of find_index_dates_window: a   *)
(* store of up to MaxIncl inclusion-coded diagnosis rows and an inclusion  *)
(* section with min_claims 2 or 3 and no support check                     *)

WithinCfgs ==
    {[icd_codes |-> <<K58_0>>, min_claims |-> n] @@ gap @@ wm :
        n \in 2..3,
        gap \in {NoKeys, [min_days_between_claims |-> MaxGap]},
        wm \in {NoKeys, [within_months |-> 1]}}

InitWithin ==
    /\ pc = "init"
    /\ \E dx \in SortedFrames(InclusionDx, MaxIncl) :
          store = [EmptyStore EXCEPT !.dx = dx]
    /\ cfg \in WithinCfgs
    /\ inc_claims = <<>>
    /\ index_dates = <<>>
    /\ result = NoResult

SpecWithin == InitWithin /\ [][NextIndex]_vars

\* The records the resolver gives on the inclusion claims
ResolverRecords ==
    FindValidClaimsWindow(inc_claims, Get(cfg, "min_days_between_claims", 0),
                          cfg.min_claims)

\* Days from the member's earliest inclusion claim to the latest are at
\* most `days`
SpanAtMost(m, days) ==
    \A a, b \in Range(inc_claims) :
        (a.member_id_hash = m /\ b.member_id_hash = m)
            => b.date_of_service - a.date_of_service <= days

InclusionClaimCount(m) ==
    Cardinality({k \in 1..Len(inc_claims) : inc_claims[k].member_id_hash = m})

WithinActed == IndexActed /\ "within_months" \in DOMAIN cfg

----------------------------------------------------------------------------
(* Diabetes inclusion claims with the lookback for prior diabetes          *)
(* (get_diabetes_inclusion_claims)                                         *)

\* Day 0 is the first of January of a common year; months are numbered from
\* that January, backwards too
MonthLengths == <<31, 28, 31, 30, 31, 30, 31, 31, 30, 31, 30, 31>>
MonthLen(k) == MonthLengths[(k % 12) + 1]

RECURSIVE MonthStart(_)
MonthStart(k) ==
    IF k = 0 THEN 0
    ELSE IF k > 0 THEN MonthStart(k - 1) + MonthLen(k - 1)
    ELSE MonthStart(k + 1) - MonthLen(k)

RECURSIVE MonthOfFrom(_, _)
MonthOfFrom(d, k) ==
    IF d < MonthStart(k) THEN MonthOfFrom(d, k - 1)
    ELSE IF d >= MonthStart(k + 1) THEN MonthOfFrom(d, k + 1)
    ELSE k

MonthOf(d) == MonthOfFrom(d, 0)

\* date - pd.DateOffset(months=n): the same day of the month n months
\* earlier, or that month's last day when it is shorter
MinusDateOffsetMonths(d, n) ==
    LET k == MonthOf(d)
        day == d - MonthStart(k)
        last == MonthLen(k - n) - 1
    IN  MonthStart(k - n) + (IF day <= last THEN day ELSE last)

\* date - 30 * n days
MinusThirtyDayMonths(d, n) == d - n * DaysPerMonth

LookbackCohorts == {"PreDiabetes", "GDM"}

\* select_cols of the inclusion query
ClaimColumns == {"member_id_hash", "date_of_service", "icd_code", "claim_type"}

\* has_prior_diabetes(row)
HasPriorDiabetes(diabetes_claims, row, lookback_months) ==
    \E k \in 1..Len(diabetes_claims) :
        /\ diabetes_claims[k].member_id_hash = row.member_id_hash
        /\ diabetes_claims[k].date_of_service < row.date_of_service
        /\ diabetes_claims[k].date_of_service
              >= MinusDateOffsetMonths(row.date_of_service, lookback_months)

\* claims[~claims.apply(has_prior_diabetes, axis=1)]
DropClaimsWithPriorDiabetes(claims, diabetes_claims, lookback_months) ==
    SelectSeq(claims, LAMBDA row :
        ~HasPriorDiabetes(diabetes_claims, row, lookback_months))

\* The same filter removing every claim of a member who has one such claim
DropMembersWithPriorDiabetes(claims, diabetes_claims, lookback_months) ==
    SelectSeq(claims, LAMBDA row :
        ~\E k \in 1..Len(claims) :
            /\ claims[k].member_id_hash = row.member_id_hash
            /\ HasPriorDiabetes(diabetes_claims, claims[k], lookback_months))

\* The claims of the inclusion query of get_diabetes_inclusion_claims
DiabetesInclusionQuery(st, inclusion_cfg) ==
    SortValues(SelectSeq(st.dx, LAMBDA row :
        /\ EvalFilter(IcdCodeSqlFilter(inclusion_cfg.icd_codes), row.icd_code)
        /\ "claim_types" \in DOMAIN inclusion_cfg
              => ClaimTypeMatches(row, inclusion_cfg.claim_types)))

\* The lookback block (lines 326-343) on the claims of the inclusion query
LookbackOutcomes(st, config, claims, inclusion_cfg) ==
    IF "Diabetes_NoComp" \notin DOMAIN config
    THEN {RaisedOutcome("KeyError")}
    ELSE IF FilterMalformed(IcdCodeSqlFilter(config["Diabetes_NoComp"].inclusion.icd_codes))
    THEN {RaisedOutcome("DatabaseError")}
    ELSE IF claims = <<>>
    THEN {ReturnedFrame(<<>>, ClaimColumns), RaisedOutcome("TypeError")}
    ELSE {ReturnedFrame(
            DropClaimsWithPriorDiabetes(claims,
                DiagnosisQuery(st.dx, config["Diabetes_NoComp"].inclusion.icd_codes),
                inclusion_cfg.lookback_no_diabetes),
            ClaimColumns)}

\* get_diabetes_inclusion_claims: the outcomes of one call
GetDiabetesInclusionClaims(st, config, cohort_name, inclusion_cfg) ==
    IF FilterMalformed(IcdCodeSqlFilter(inclusion_cfg.icd_codes))
    THEN {RaisedOutcome("DatabaseError")}
    ELSE IF cohort_name \in LookbackCohorts
              /\ "lookback_no_diabetes" \in DOMAIN inclusion_cfg
    THEN LookbackOutcomes(st, config, DiabetesInclusionQuery(st, inclusion_cfg),
                          inclusion_cfg)
    ELSE {ReturnedFrame(DiabetesInclusionQuery(st, inclusion_cfg), ClaimColumns)}

----------------------------------------------------------------------------
(* Specification of get_diabetes_inclusion_claims on its own: a diagnoses  *)
(* table of up to MaxLookbackRows pre-diabetes and diabetes rows, and a    *)
(* cohort with or without lookback_no_diabetes                             *)

MaxLookbackRows == 3

R73_03 == <<"R", "7", "3", ".", "0", "3">>

\* Claim days: two days of January, and the first two days of February
LookbackDays == {0, 1, FarDay, FarDay + 1}
LookbackDx ==
    {DxRow(m, d, c, "medical") : m \in Members, d \in LookbackDays,
                                 c \in {R73_03, E11_9}}

DiabetesCohortNames == {"PreDiabetes", "GDM", "Diabetes_HTN"}

LookbackConfigs ==
    {(n :> [inclusion |-> [icd_codes |-> <<R73_03>>] @@ lb]) @@ nocomp :
        n \in DiabetesCohortNames,
        lb \in {NoKeys, [lookback_no_diabetes |-> 1]},
        nocomp \in {NoKeys,
                    [Diabetes_NoComp |-> [inclusion |-> [icd_codes |-> <<E11_9>>]]]}}

InitLookback ==
    /\ pc = "init"
    /\ \E dx \in SortedFrames(LookbackDx, MaxLookbackRows) :
          store = [EmptyStore EXCEPT !.dx = dx]
    /\ \E config \in LookbackConfigs :
          cfg = [cohorts |-> config,
                 cohort_name |-> CHOOSE n \in DiabetesCohortNames : n \in DOMAIN config]
    /\ inc_claims = <<>>
    /\ index_dates = <<>>
    /\ result = NoResult

CallGetDiabetesInclusionClaims ==
    /\ pc = "init"
    /\ \E o \in GetDiabetesInclusionClaims(store, cfg.cohorts, cfg.cohort_name,
                    cfg.cohorts[cfg.cohort_name].inclusion) :
          /\ result' = AsResult(o)
          /\ inc_claims' = o.rows
          /\ pc' = IF o.status = "raised" THEN "raised"
                   ELSE "get_diabetes_inclusion_claims"
    /\ UNCHANGED <<store, cfg, index_dates>>

NextLookback == CallGetDiabetesInclusionClaims

SpecLookback == InitLookback /\ [][NextLookback]_vars

LookbackActed ==
    /\ pc = "get_diabetes_inclusion_claims"
    /\ cfg.cohort_name \in LookbackCohorts
    /\ "lookback_no_diabetes" \in DOMAIN cfg.cohorts[cfg.cohort_name].inclusion

\* An inclusion-coded claim of the store with a diabetes-coded claim of the
\* same member strictly before it and no earlier than L months before it
PrecededByDiabetes(row) ==
    /\ row.icd_code = R73_03
    /\ \E k \in 1..Len(store.dx) :
          /\ store.dx[k].icd_code = E11_9
          /\ store.dx[k].member_id_hash = row.member_id_hash
          /\ store.dx[k].date_of_service < row.date_of_service
          /\ store.dx[k].date_of_service >=
                MinusDateOffsetMonths(row.date_of_service,
                    cfg.cohorts[cfg.cohort_name].inclusion.lookback_no_diabetes)

\* C22: for PreDiabetes and GDM with lookback_no_diabetes = L, a member
\* with a diabetes-coded claim strictly before one of their candidate
\* inclusion claims and within L months of it has no inclusion claim in the
\* table get_diabetes_inclusion_claims returns
C22_LookbackRemovesMember ==
    LookbackActed =>
        \A row \in Range(store.dx) :
            PrecededByDiabetes(row) => row.member_id_hash \notin MembersOf(inc_claims)

\* What the code does (C22): the lookback removes claims, not members; the
\* returned claims are the member's inclusion claims that no diabetes claim
\* precedes within the lookback
C22_LookbackRemovesClaims ==
    LookbackActed =>
        Range(inc_claims) =
            {row \in Range(store.dx) :
                row.icd_code = R73_03 /\ ~PrecededByDiabetes(row)}

----------------------------------------------------------------------------
(* Condition-specific resolvers: the "first pair" scan shared by the PCOS, *)
(* metabolic-syndrome (strict path) and PreDiabetes resolvers              *)

DefaultMinDaysBetween == 30

\* group = claims of one member, sorted by date_of_service
GroupOf(claims, member) ==
    SelectSeq(SortValues(claims), LAMBDA r : r.member_id_hash = member)

\* for i in range(1, len(group)): the positions i whose claim is at least
\* min_days after the claim before it
GapPositions(group, min_days) ==
    {i \in 2..Len(group) :
        group[i].date_of_service - group[i - 1].date_of_service >= min_days}

\* The members for which the loop appends a record
ScanMembers(claims, min_days, min_count) ==
    {m \in MembersOf(claims) :
        /\ Len(GroupOf(claims, m)) >= min_count
        /\ GapPositions(GroupOf(claims, m), min_days) # {}}

\* idx_dates: one record per such member, in groupby order, dated at the
\* claim iloc[i] of the first position found
ScanIndexDates(claims, min_days, min_count) ==
    LET keys == GroupKeys(ScanMembers(claims, min_days, min_count))
    IN  [k \in 1..Len(keys) |->
            LET group == GroupOf(claims, keys[k])
            IN  [member_id_hash |-> keys[k],
                 index_date |->
                    group[SetMin(GapPositions(group, min_days))].date_of_service]]

\* WHERE ({icd_filter}) AND ce.claim_type = 'medical'
MedicalClaims(dx, icd_codes) ==
    SelectSeq(dx, LAMBDA row :
        /\ EvalFilter(IcdCodeSqlFilter(icd_codes), row.icd_code)
        /\ row.claim_type = "medical")

\* The members a list of exclusion keys removes: every member with a claim,
\* of any type and date, matching the codes of one of the keys
ExcludedMembers(dx, exclusion_cfg, keys) ==
    {dx[k].member_id_hash : k \in
        {j \in 1..Len(dx) :
            \E key \in keys :
                EvalFilter(IcdCodeSqlFilter(exclusion_cfg[key]), dx[j].icd_code)}}

\* The exclusion loop over `keys`: skipped on an empty table; a key with an
\* empty code list gives `WHERE ` + nothing and the query raises
SubtractExcludedMembers(dx, idx_df, exclusion_cfg, keys) ==
    IF idx_df = <<>> THEN ReturnedFrame(<<>>, {})
    ELSE IF \E key \in keys : FilterMalformed(IcdCodeSqlFilter(exclusion_cfg[key]))
    THEN RaisedOutcome("DatabaseError")
    ELSE ReturnedFrame(
            SelectSeq(idx_df, LAMBDA r :
                r.member_id_hash \notin ExcludedMembers(dx, exclusion_cfg, keys)),
            IndexColumns)

\* get_pcos_index_dates
GetPcosIndexDates(st, inclusion_cfg, exclusion_cfg) ==
    IF FilterMalformed(IcdCodeSqlFilter(inclusion_cfg.icd_codes))
    THEN RaisedOutcome("DatabaseError")
    ELSE SubtractExcludedMembers(st.dx,
            ScanIndexDates(MedicalClaims(st.dx, inclusion_cfg.icd_codes),
                Get(inclusion_cfg, "min_days_between_claims", DefaultMinDaysBetween),
                Get(inclusion_cfg, "min_claims", 2)),
            exclusion_cfg, DOMAIN exclusion_cfg)

----------------------------------------------------------------------------
(* Specification of get_pcos_index_dates on its own: a diagnoses table of  *)
(* up to MaxClaims rows in any order, and a PCOS section                   *)

E28_2 == <<"E", "2", "8", ".", "2">>
E25_0 == <<"E", "2", "5", ".", "0">>

PcosDx ==
    {DxRow(m, d, E28_2, "medical") : m \in Members, d \in Dates}
        \cup {DxRow(m, 0, E28_2, "pharma") : m \in Members}
        \cup {DxRow(m, 0, E25_0, "medical") : m \in Members}

PcosCfgs ==
    {[inclusion |-> [icd_codes |-> <<E28_2>>] @@ n @@ gap, exclusion |-> excl] :
        n \in {NoKeys, [min_claims |-> 3]},
        gap \in {NoKeys, [min_days_between_claims |-> MaxGap]},
        excl \in {NoKeys, [cah |-> <<E25_0>>], [cah |-> <<>>]}}

InitPcos ==
    /\ pc = "init"
    /\ \E dx \in SeqsUpTo(PcosDx, MaxClaims) :
          store = [EmptyStore EXCEPT !.dx = dx]
    /\ cfg \in PcosCfgs
    /\ inc_claims = <<>>
    /\ index_dates = <<>>
    /\ result = NoResult

CallGetPcosIndexDates ==
    /\ pc = "init"
    /\ LET o == GetPcosIndexDates(store, cfg.inclusion, cfg.exclusion)
       IN  /\ result' = AsResult(o)
           /\ index_dates' = o.rows
           /\ pc' = IF o.status = "raised" THEN "raised" ELSE "get_pcos_index_dates"
    /\ UNCHANGED <<store, cfg, inc_claims>>

NextPcos == CallGetPcosIndexDates

SpecPcos == InitPcos /\ [][NextPcos]_vars

PcosActedNoExclusion ==
    pc = "get_pcos_index_dates" /\ cfg.exclusion = NoKeys

\* The generic resolver of 4.2 on the medical PCOS claims of the store, with
\* the min_claims / min_days_between the PCOS resolver runs with
GenericOnPcosClaims ==
    FindValidClaimsWindow(MedicalClaims(store.dx, cfg.inclusion.icd_codes),
        Get(cfg.inclusion, "min_days_between_claims", DefaultMinDaysBetween),
        Get(cfg.inclusion, "min_claims", 2))

PcosClaimCount(m) ==
    Cardinality({k \in 1..Len(store.dx) :
        /\ store.dx[k].member_id_hash = m
        /\ store.dx[k].icd_code = E28_2
        /\ store.dx[k].claim_type = "medical"})

\* C23: with an empty exclusion spec, get_pcos_index_dates returns the same
\* set of (member, index_date) records as find_valid_claims_window on the
\* same medical claims, min_claims and min_days_between
C23_PcosEqualsGenericResolver ==
    PcosActedNoExclusion =>
        RecordsOf(index_dates) = RecordsOf(GenericOnPcosClaims)

\* What the code does (C23): the PCOS resolver returns the generic
\* resolver's members that have at least min_claims claims, each dated no
\* earlier than the generic resolver dates it
C23_PcosMembersAmongGenericDatedLater ==
    PcosActedNoExclusion =>
        /\ MembersOf(index_dates) =
              {m \in MembersOf(GenericOnPcosClaims) :
                  PcosClaimCount(m) >= Get(cfg.inclusion, "min_claims", 2)}
        /\ \A r \in Range(index_dates), g \in Range(GenericOnPcosClaims) :
              r.member_id_hash = g.member_id_hash => r.index_date >= g.index_date

----------------------------------------------------------------------------
(* Metabolic syndrome resolver (get_metabolic_syndrome_index_dates)        *)

StrictMinDays == 30

\* The labels of the components dict, in a fixed order
LabelOrder == <<"htn", "obesity">>

\* WHERE {code_filter} AND ce.claim_type = 'medical': the predicate text is
\* `c1 OR ... OR cn` without parentheses and AND binds tighter than OR, so
\* only the last condition is tied to the claim type
ComponentRowMatches(row, codes) ==
    LET conds == IcdCodeSqlFilter(codes)
    IN  \/ \E i \in 1..(Len(conds) - 1) : EvalCondition(conds[i], row.icd_code)
        \/ /\ conds # <<>>
           /\ EvalCondition(conds[Len(conds)], row.icd_code)
           /\ row.claim_type = "medical"

\* The same predicate with the code conditions in parentheses
ComponentRowMatchesMedicalOnly(row, codes) ==
    /\ EvalFilter(IcdCodeSqlFilter(codes), row.icd_code)
    /\ row.claim_type = "medical"

\* The rows of comp_df of one member: [date_of_service, component]
RECURSIVE ComponentClaimsOf(_, _, _, _)
ComponentClaimsOf(dx, comp, member, labels) ==
    IF labels = <<>> THEN <<>>
    ELSE LET label == Head(labels)
             rows == SelectSeq(dx, LAMBDA row :
                        /\ row.member_id_hash = member
                        /\ label \in DOMAIN comp
                        /\ ComponentRowMatches(row, comp[label]))
         IN  [k \in 1..Len(rows) |->
                 [member_id_hash |-> member,
                  date_of_service |-> rows[k].date_of_service,
                  component |-> label]]
             \o ComponentClaimsOf(dx, comp, member, Tail(labels))

\* window_comps of the window opened by a component claim
WindowComps(group, window_start, window_days) ==
    {group[k].component : k \in
        {j \in 1..Len(group) :
            /\ group[j].date_of_service >= window_start
            /\ group[j].date_of_service <= window_start + window_days}}

\* The window starts of a member's component claims that hold at least
\* min_components distinct components
BroadStarts(group, min_components, window_days) ==
    {group[k].date_of_service : k \in
        {j \in 1..Len(group) :
            Cardinality(WindowComps(group, group[j].date_of_service, window_days))
                >= min_components}}

\* broad_idx: one record per member with such a window, dated at the first
BroadIndexDates(dx, inclusion_cfg) ==
    LET Group(m) == ComponentClaimsOf(dx, inclusion_cfg.components, m, LabelOrder)
        Starts(m) == BroadStarts(Group(m), inclusion_cfg.min_components,
                                 inclusion_cfg.component_window_days)
        keys == GroupKeys({m \in Members : Starts(m) # {}})
    IN  [k \in 1..Len(keys) |->
            [member_id_hash |-> keys[k], index_date |-> SetMin(Starts(keys[k]))]]

\* for excl in ['cushing', 't1dm', 'pregnancy', 'cancer', 'hiv']
MetabolicExclusionKeys == {"cushing", "t1dm", "pregnancy", "cancer", "hiv"}

\* idx_df = pd.DataFrame(idx_dates + broad_idx)
StrictPlusBroad(dx, inclusion_cfg) ==
    ScanIndexDates(MedicalClaims(dx, inclusion_cfg.icd_codes), StrictMinDays, 2)
        \o BroadIndexDates(dx, inclusion_cfg)

\* get_metabolic_syndrome_index_dates
GetMetabolicSyndromeIndexDates(st, inclusion_cfg, exclusion_cfg) ==
    IF FilterMalformed(IcdCodeSqlFilter(inclusion_cfg.icd_codes))
    THEN RaisedOutcome("DatabaseError")
    ELSE IF \E label \in DOMAIN inclusion_cfg.components :
                FilterMalformed(IcdCodeSqlFilter(inclusion_cfg.components[label]))
    THEN RaisedOutcome("DatabaseError")
    ELSE IF DOMAIN inclusion_cfg.components = {}
    THEN RaisedOutcome("KeyError")
    ELSE SubtractExcludedMembers(st.dx, StrictPlusBroad(st.dx, inclusion_cfg),
            exclusion_cfg, MetabolicExclusionKeys \cap DOMAIN exclusion_cfg)

----------------------------------------------------------------------------
(* Specification of get_metabolic_syndrome_index_dates on its own: a       *)
(* diagnoses table of up to MaxMetabolicRows strict-code, component and    *)
(* exclusion-code rows, held in sorted order, and a metabolic section      *)

MaxMetabolicRows == 4

E88_81 == <<"E", "8", "8", ".", "8", "1">>
E66_9 == <<"E", "6", "6", ".", "9">>
E66_01 == <<"E", "6", "6", ".", "0", "1">>
E10_9 == <<"E", "1", "0", ".", "9">>

MetabolicDx ==
    {DxRow(m, d, E88_81, "medical") : m \in Members, d \in {0, FarDay}}
        \cup {DxRow(m, 0, E66_9, t) : m \in Members, t \in {"medical", "pharma"}}
        \cup {DxRow(m, d, I10, "medical") : m \in Members, d \in {0, MaxGap + 1}}
        \cup {DxRow(m, 0, E10_9, "pharma") : m \in Members}

MetabolicCfgs ==
    {[inclusion |-> [icd_codes |-> <<E88_81>>, components |-> comp,
                     min_components |-> 2, component_window_days |-> MaxGap],
      exclusion |-> excl] :
        comp \in {NoKeys,
                  [obesity |-> <<E66_9>>, htn |-> <<I10>>],
                  [obesity |-> <<E66_9, E66_01>>, htn |-> <<I10>>],
                  [obesity |-> <<>>, htn |-> <<I10>>]},
        excl \in {NoKeys, [t1dm |-> <<E10_9>>], [smoking |-> <<E10_9>>],
                  [t1dm |-> <<>>]}}

InitMetabolic ==
    /\ pc = "init"
    /\ \E dx \in SortedFrames(MetabolicDx, MaxMetabolicRows) :
          store = [EmptyStore EXCEPT !.dx = dx]
    /\ cfg \in MetabolicCfgs
    /\ inc_claims = <<>>
    /\ index_dates = <<>>
    /\ result = NoResult

CallGetMetabolicSyndromeIndexDates ==
    /\ pc = "init"
    /\ LET o == GetMetabolicSyndromeIndexDates(store, cfg.inclusion, cfg.exclusion)
       IN  /\ result' = AsResult(o)
           /\ index_dates' = o.rows
           /\ pc' = IF o.status = "raised" THEN "raised"
                    ELSE "get_metabolic_syndrome_index_dates"
    /\ UNCHANGED <<store, cfg, inc_claims>>

NextMetabolic == CallGetMetabolicSyndromeIndexDates

SpecMetabolic == InitMetabolic /\ [][NextMetabolic]_vars

MetabolicActed == pc = "get_metabolic_syndrome_index_dates"

MemberRows(m) == {row \in Range(store.dx) : row.member_id_hash = m}

\* Strict path: two consecutive strict-code medical claims of the member at
\* least 30 days apart
StrictPath(m) ==
    LET strict == {row \in MemberRows(m) :
                      /\ row.icd_code \in Range(cfg.inclusion.icd_codes)
                      /\ row.claim_type = "medical"}
    IN  \E a, b \in strict :
            /\ b.date_of_service - a.date_of_service >= StrictMinDays
            /\ ~\E c \in strict :
                   /\ c.date_of_service > a.date_of_service
                   /\ c.date_of_service < b.date_of_service

\* Broad path over the member's component claims picked by IsComponentClaim:
\* one of them, dated d, opens a window [d, d + component_window_days] that
\* covers at least min_components distinct components
BroadPathOver(m, component_claims) ==
    \E c \in component_claims :
        Cardinality({label \in DOMAIN cfg.inclusion.components :
            \E row \in component_claims :
                /\ row.icd_code \in Range(cfg.inclusion.components[label])
                /\ row.date_of_service >= c.date_of_service
                /\ row.date_of_service
                      <= c.date_of_service + cfg.inclusion.component_window_days})
            >= cfg.inclusion.min_components

AllComponentCodes ==
    UNION {Range(cfg.inclusion.components[label]) :
              label \in DOMAIN cfg.inclusion.components}

\* Codes that are not the last of their component's list
NotLastComponentCodes ==
    UNION {{cfg.inclusion.components[label][i] :
               i \in 1..(Len(cfg.inclusion.components[label]) - 1)} :
              label \in DOMAIN cfg.inclusion.components}

\* The member has a claim, of any type and date, with a code of a
\* configured category of the fixed exclusion list
OnFixedExclusionList(m) ==
    \E key \in MetabolicExclusionKeys \cap DOMAIN cfg.exclusion :
        \E row \in MemberRows(m) : row.icd_code \in Range(cfg.exclusion[key])

\* C24: get_metabolic_syndrome_index_dates returns a member if and only if
\* the member satisfies the strict path or the broad path over their
\* medical component claims, and has no claim matching a configured
\* category of the fixed exclusion list; other exclusion keys do nothing
C24_StrictOrBroadMinusFixedExclusions ==
    MetabolicActed =>
        \A m \in Members :
            m \in MembersOf(index_dates) <=>
                /\ \/ StrictPath(m)
                   \/ BroadPathOver(m, {row \in MemberRows(m) :
                          /\ row.icd_code \in AllComponentCodes
                          /\ row.claim_type = "medical"})
                /\ ~OnFixedExclusionList(m)

\* What the code does (C24): the same, with the broad path also counting
\* the claims of any type whose code is not the last of its component's
\* code list
C24_BroadPathCountsNonMedicalClaims ==
    MetabolicActed =>
        \A m \in Members :
            m \in MembersOf(index_dates) <=>
                /\ \/ StrictPath(m)
                   \/ BroadPathOver(m, {row \in MemberRows(m) :
                          /\ row.icd_code \in AllComponentCodes
                          /\ \/ row.claim_type = "medical"
                             \/ row.icd_code \in NotLastComponentCodes})
                /\ ~OnFixedExclusionList(m)

RowsOfMember(df, m) == Cardinality({k \in 1..Len(df) : df[k].member_id_hash = m})

\* C29: in the table get_metabolic_syndrome_index_dates returns, every
\* member appears in at most one row, also a member who qualifies through
\* both the strict and the broad path
C29_MetabolicMemberAtMostOnce ==
    MetabolicActed => \A m \in Members : RowsOfMember(index_dates, m) <= 1

\* What the code does (C29): a returned member has one row per path they
\* qualify through, so two rows when they qualify through both
C29_OneRowPerQualifyingPath ==
    MetabolicActed =>
        \A m \in MembersOf(index_dates) :
            RowsOfMember(index_dates, m) =
                (IF StrictPath(m) THEN 1 ELSE 0)
                + (IF BroadPathOver(m, {row \in MemberRows(m) :
                          /\ row.icd_code \in AllComponentCodes
                          /\ \/ row.claim_type = "medical"
                             \/ row.icd_code \in NotLastComponentCodes})
                   THEN 1 ELSE 0)

----------------------------------------------------------------------------
(* Row-order independence of the resolver (checked under SpecWindow)       *)

\* C25: the result of find_valid_claims_window depends only on the
\* multiset of (member, date) claims: on every permutation of the input
\* rows it returns the same set of (member, index_date) records
C25_ResolverIgnoresRowOrder ==
    ResolverActed =>
        \A permuted \in Reorderings(inc_claims) :
            RecordsOf(FindValidClaimsWindow(permuted, cfg.min_days_between,
                                            cfg.min_claims))
                = RecordsOf(index_dates)

\* C25 witness: the input rows are not in (member, date) order, a member's
\* later claim coming first, and the resolver returns a record
C25_Witness ==
    /\ ResolverActed
    /\ index_dates # <<>>
    /\ \E i \in 1..(Len(inc_claims) - 1) :
          /\ inc_claims[i].member_id_hash = inc_claims[i + 1].member_id_hash
          /\ inc_claims[i].date_of_service > inc_claims[i + 1].date_of_service
    /\ Reorderings(inc_claims) # {inc_claims}

----------------------------------------------------------------------------
(* Specification of the exclusion step with and without a complete rule:   *)
(* apply_exclusions_advanced called on an index-date frame, and            *)
(* build_cohort on the same store, for exclusion sections that are absent, *)
(* empty, incomplete, unrecognised or complete                             *)

MaxSkipRows == 3

SkipDx ==
    {DxRow(m, d, c, "medical") : m \in Members, d \in {1, FarDay},
                                 c \in {K58_0, K58_1}}

IncompleteExclusions ==
    {NoKeys, [subtypes |-> <<K58_1>>], [organic_gi |-> <<K58_1>>],
     [subtype_window_days |-> MaxGap], [icd_codes |-> <<K58_1>>]}

CompleteExclusions ==
    {[subtypes |-> <<K58_1>>, subtype_window_days |-> MaxGap]}

\* The arguments of the two calls for one exclusion section; `section` tells
\* whether the cohort carries the section at all
SkipCall(e, section) ==
    [call |-> "apply_exclusions_advanced", exclusion |-> e,
     cohort_name |-> "IBS", registry |-> COHORT_LOGIC_REGISTRY,
     cohorts |-> ("IBS" :> ([inclusion |-> [icd_codes |-> <<K58_0>>,
                                            min_claims |-> 2]]
                            @@ IF section THEN [exclusion |-> e] ELSE NoKeys))]

SkipCalls ==
    {SkipCall(e, TRUE) : e \in IncompleteExclusions \cup CompleteExclusions}
        \cup {SkipCall(NoKeys, FALSE)}

InitSkip ==
    /\ pc = "init"
    /\ \E dx \in SortedFrames(SkipDx, MaxSkipRows) :
          store = [EmptyStore EXCEPT !.dx = dx,
                                     !.members = <<MemberRow("M1"), MemberRow("M2")>>]
    /\ cfg \in SkipCalls
    /\ inc_claims = <<>>
    /\ index_dates \in IndexFrames
    /\ result = NoResult

NextSkip == CallApplyExclusionsAdvanced \/ CallBuildCohort

SpecSkip == InitSkip /\ [][NextSkip]_vars

\* The section holds neither the key pair (subtypes, subtype_window_days)
\* nor the key pair (organic_gi, organic_gi_window_days)
NoCompleteRule(exclusion_cfg) ==
    /\ ~({"subtypes", "subtype_window_days"} \subseteq DOMAIN exclusion_cfg)
    /\ ~({"organic_gi", "organic_gi_window_days"} \subseteq DOMAIN exclusion_cfg)

\* The members with a qualifying pair of inclusion claims in the store
\* (min_days_between_claims is absent: any two claims qualify)
SkipCandidates ==
    {m \in Members :
        Cardinality({k \in 1..Len(store.dx) :
            /\ store.dx[k].member_id_hash = m
            /\ store.dx[k].icd_code = K58_0}) >= 2}

\* C26: apply_exclusions_advanced returns its input unchanged when the
\* exclusion spec holds no complete rule (empty, a code list without its
\* window, a window without its code list, or an unrecognised key), and
\* build_cohort does not run the exclusion step for an empty or absent
\* exclusion spec and loses no candidate to a spec without a complete rule
C26_NoCompleteRuleRemovesNothing ==
    /\ (pc = "apply_exclusions_advanced" /\ NoCompleteRule(cfg.exclusion)) =>
          /\ result.status = "returned"
          /\ result.rows = index_dates
    /\ (pc \in {"build_cohort", "raised"}
            /\ Get(cfg.cohorts[cfg.cohort_name], "exclusion", NoKeys) = NoKeys) =>
          "apply_exclusions_advanced" \notin Range(result.steps)
    /\ (pc \in {"build_cohort", "raised"} /\ NoCompleteRule(cfg.exclusion)) =>
          /\ result.status = "returned"
          /\ MembersOf(result.rows) = SkipCandidates

\* C26 witness: a section with the code list and no window key left in
\* place a record that has a listed claim on its index date
C26_Witness ==
    /\ pc = "apply_exclusions_advanced"
    /\ cfg.exclusion = [subtypes |-> <<K58_1>>]
    /\ \E r \in Range(result.rows) :
          \E k \in 1..Len(store.dx) :
              /\ store.dx[k].member_id_hash = r.member_id_hash
              /\ store.dx[k].icd_code = K58_1
              /\ store.dx[k].date_of_service = r.index_date

\* C26 witness of the build: the cohort carries an empty exclusion section,
\* a member qualifies, and the build returned without the exclusion step
C26_WitnessBuild ==
    /\ pc = "build_cohort"
    /\ "exclusion" \in DOMAIN cfg.cohorts[cfg.cohort_name]
    /\ cfg.cohorts[cfg.cohort_name].exclusion = NoKeys
    /\ result.rows # <<>>
    /\ "apply_exclusions_advanced" \notin Range(result.steps)

----------------------------------------------------------------------------
(* Batch and single-member support checks (checked under SpecSupport)      *)

\* The member's rows of the called table that are the sentinel procedure
\* code or carry no drug name
OnlySentinelRows(m) ==
    IF pc = "batch_get_procedure_support"
    THEN \A k \in 1..Len(store.px) :
            store.px[k].member_id_hash = m => store.px[k].proc_code = SentinelProcCode
    ELSE \A k \in 1..Len(store.rx) :
            store.rx[k].member_id_hash = m
                => store.rx[k].product_service_name \in {EmptyName, Null}

\* What the single-member variant of the called batch check answers
SingleSupport(m) ==
    IF pc = "batch_get_procedure_support"
    THEN GetProcedureSupport(store.px, m, cfg.codes)
    ELSE GetDrugSupport(store.rx, m, cfg.codes)

\* C27: for every store, code / name list and list of members, the batch
\* check maps each requested member to what the single-member check
\* answers for that member; the sentinel procedure code and empty drug
\* names are support in neither
C27_BatchAgreesWithSingle ==
    BatchActed =>
        \A m \in Range(cfg.member_ids) :
            /\ result.map[m] = SingleSupport(m)
            /\ OnlySentinelRows(m) => (~result.map[m] /\ ~SingleSupport(m))

\* C27 witness: the procedure batch check answered for two members, true
\* for one and false for the other, whose only procedure row is the
\* sentinel code that the requested pattern matches
C27_Witness ==
    /\ pc = "batch_get_procedure_support"
    /\ \E i \in 1..Len(cfg.codes) : cfg.codes[i] \in {AnyPattern, SentinelProcCode}
    /\ \E m, o \in Range(cfg.member_ids) :
          /\ result.map[m] = TRUE
          /\ result.map[o] = FALSE
          /\ OnlySentinelRows(o)
          /\ \E k \in 1..Len(store.px) : store.px[k].member_id_hash = o

----------------------------------------------------------------------------
(* Procedure support alone (checked under SpecIndex)                       *)

ProcedureOnly == IndexActed /\ ProcedureConfigured /\ ~MedicationConfigured

\* C28: with procedure support configured and medication support not,
\* every member find_index_dates_window returns has procedure support,
\* whether require_both_procedure_and_medication is true or false
C28_ProcedureOnlyMembersHaveSupport ==
    ProcedureOnly =>
        \A m \in MembersOf(index_dates) : HasProcedureRow(m)

\* What the code does (C28): with require_both true or absent the returned
\* members are the window-qualified members with procedure support; with
\* require_both false the procedure check filters nothing and every
\* window-qualified member is returned
C28_ProcedureOnlyFiltersWhenRequireBoth ==
    ProcedureOnly =>
        MembersOf(index_dates) =
            IF RequireBoth(cfg)
            THEN {m \in MembersOf(WindowQualified(inc_claims, cfg)) : HasProcedureRow(m)}
            ELSE MembersOf(WindowQualified(inc_claims, cfg))

----------------------------------------------------------------------------
(* Run script (scripts/run_cohorts.py main): cohorts are built and saved   *)
(* one after the other, then the combined table is written.                *)
(* result.position is the loop's place in cohorts_to_run,                  *)
(* result.all_cohort_data the tables built so far, result.files the files  *)
(* written so far                                                          *)

MaxRun == 3          \* names on the --cohorts command line
MaxRunRows == 2      \* rows of the diagnoses table of the run

K21_9 == <<"K", "2", "1", ".", "9">>

\* cohorts_to_run = args.cohorts if args.cohorts else all_cohorts
CohortsToRun ==
    IF cfg.args_cohorts # <<>> THEN cfg.args_cohorts ELSE cfg.all_cohorts

OutputFile(name, kind) == [name |-> name, kind |-> kind]

\* The parquet file and the metadata file of one cohort
CohortFiles(name) == {OutputFile(name, "parquet"), OutputFile(name, "metadata")}

CombinedTable == OutputFile("combined_cohorts", "csv")
CombinedMetadata == OutputFile("combined_cohorts", "metadata")

RunStart ==
    [status |-> "none", rows |-> <<>>, map |-> <<>>, error |-> "",
     position |-> 1, all_cohort_data |-> <<>>, files |-> {}]

\* A loop that catches the failure of a build and goes on to the next cohort
BuildAndSaveCohortCatching ==
    /\ pc = "main"
    /\ result.position <= Len(CohortsToRun)
    /\ \E o \in BuildCohort(store, cfg.cohorts, cfg.registry,
                            CohortsToRun[result.position]) :
          IF o.status = "raised"
          THEN /\ pc' = "main"
               /\ result' = [result EXCEPT !.position = @ + 1]
          ELSE /\ pc' = "main"
               /\ result' =
                    [result EXCEPT
                        !.position = @ + 1,
                        !.all_cohort_data =
                            Append(@, [cohort |-> CohortsToRun[result.position],
                                       rows |-> o.rows, columns |-> o.columns]),
                        !.files = IF cfg.combined_only THEN @
                                  ELSE @ \cup CohortFiles(CohortsToRun[result.position])]
    /\ UNCHANGED <<store, cfg, inc_claims, index_dates>>

\* One turn of `for cohort_name in cohorts_to_run`: build_cohort, append,
\* and unless --combined_only write the parquet and metadata files; an
\* exception of build_cohort leaves main
BuildAndSaveCohort ==
    /\ pc = "main"
    /\ result.position <= Len(CohortsToRun)
    /\ \E o \in BuildCohort(store, cfg.cohorts, cfg.registry,
                            CohortsToRun[result.position]) :
          IF o.status = "raised"
          THEN /\ pc' = "raised"
               /\ result' = [result EXCEPT !.status = "raised", !.error = o.error]
          ELSE /\ pc' = "main"
               /\ result' =
                    [result EXCEPT
                        !.position = @ + 1,
                        !.all_cohort_data =
                            Append(@, [cohort |-> CohortsToRun[result.position],
                                       rows |-> o.rows, columns |-> o.columns]),
                        !.files = IF cfg.combined_only THEN @
                                  ELSE @ \cup CohortFiles(CohortsToRun[result.position])]
    /\ UNCHANGED <<store, cfg, inc_claims, index_dates>>

\* pd.concat(all_cohort_data, ignore_index=True): rows and columns
RECURSIVE ConcatRows(_)
ConcatRows(frames) ==
    IF frames = <<>> THEN <<>> ELSE Head(frames).rows \o ConcatRows(Tail(frames))

ConcatColumns(frames) == UNION {frames[k].columns : k \in 1..Len(frames)}

\* After the loop: the combined table, then its metadata, which reads
\* combined_df.index_date and raises AttributeError when no table has it
CreateCombinedTable ==
    /\ pc = "main"
    /\ result.position > Len(CohortsToRun)
    /\ IF result.all_cohort_data = <<>>
       THEN /\ pc' = "completed"
            /\ result' = [result EXCEPT !.status = "returned"]
       ELSE IF "index_date" \in ConcatColumns(result.all_cohort_data)
       THEN /\ pc' = "completed"
            /\ result' = [result EXCEPT
                            !.status = "returned",
                            !.rows = ConcatRows(result.all_cohort_data),
                            !.files = @ \cup {CombinedTable, CombinedMetadata}]
       ELSE /\ pc' = "raised"
            /\ result' = [result EXCEPT
                            !.status = "raised",
                            !.error = "AttributeError",
                            !.rows = ConcatRows(result.all_cohort_data),
                            !.files = @ \cup {CombinedTable}]
    /\ UNCHANGED <<store, cfg, inc_claims, index_dates>>

----------------------------------------------------------------------------
(* Specification of a run: a configuration of two or three cohorts, one of *)
(* which may have an empty code list, a command line of up to MaxRun       *)
(* cohort names, and a small store                                         *)

RunCohort(code) == [inclusion |-> [icd_codes |-> code, min_claims |-> 2]]

RunConfigs ==
    {[all_cohorts |-> <<"IBS", "GERD">>,
      cohorts |-> [IBS |-> RunCohort(<<K58_0>>), GERD |-> RunCohort(<<K21_9>>)]],
     [all_cohorts |-> <<"IBS", "Bad", "GERD">>,
      cohorts |-> [IBS |-> RunCohort(<<K58_0>>), Bad |-> RunCohort(<<>>),
                   GERD |-> RunCohort(<<K21_9>>)]]}

RunDx == {DxRow("M1", 0, c, "medical") : c \in {K58_0, K21_9}}

InitRun ==
    /\ pc = "main"
    /\ \E dx \in SortedFrames(RunDx, MaxRunRows) :
          store = [EmptyStore EXCEPT !.dx = dx, !.members = <<MemberRow("M1")>>]
    /\ \E config \in RunConfigs,
          args_cohorts \in SeqsUpTo({"IBS", "GERD", "Bad", "Unlisted"}, MaxRun),
          combined_only \in BOOLEAN :
          cfg = [all_cohorts |-> config.all_cohorts, cohorts |-> config.cohorts,
                 registry |-> COHORT_LOGIC_REGISTRY,
                 args_cohorts |-> args_cohorts, combined_only |-> combined_only]
    /\ inc_claims = <<>>
    /\ index_dates = <<>>
    /\ result = RunStart

NextRun == BuildAndSaveCohort \/ CreateCombinedTable

SpecRun == InitRun /\ [][NextRun]_vars

\* The names of the tables built so far
BuiltNames == [k \in 1..Len(result.all_cohort_data) |-> result.all_cohort_data[k].cohort]

\* build_cohort raised for the cohort at the loop's position
BuildFailed == pc = "raised" /\ result.position <= Len(CohortsToRun)

\* The per-cohort files of the cohorts built so far
FilesOfBuilt ==
    IF cfg.combined_only THEN {}
    ELSE UNION {CohortFiles(BuiltNames[k]) : k \in 1..Len(BuiltNames)}

\* C30: the run script builds the cohorts one at a time in the listed
\* order and catches no build failure: when build_cohort raises for the
\* k-th cohort, no later cohort is built and the combined table and its
\* metadata are never written, the files written for cohorts 1..k-1 remain,
\* and the combined table is written only after every requested cohort was
\* built
C30_FailedBuildAbortsRun ==
    /\ [](/\ BuiltNames = SubSeq(CohortsToRun, 1, result.position - 1)
          /\ result.files \cap {CombinedTable, CombinedMetadata} # {}
                => Len(BuiltNames) = Len(CohortsToRun)
          /\ BuildFailed =>
                /\ result.files = FilesOfBuilt
                /\ Len(BuiltNames) < Len(CohortsToRun))
    /\ [][~BuildFailed /\ result.files \subseteq result'.files]_vars

\* C30 witness: the second cohort's build raised after the first cohort's
\* two files were written
C30_Witness ==
    /\ BuildFailed
    /\ result.position = 2
    /\ result.files = CohortFiles(CohortsToRun[1])

====
